---- MODULE Spec2Model ----
(***************************************************************************)
(* Model of the duck target orchestration engine: Duck.RunTarget           *)
(* (internal/duck) and Target.Run (internal/target), driven by a caller    *)
(* that invokes them on one Duck instance, with a cancellable context.     *)
(*                                                                         *)
(* The recursion of RunTarget is an explicit stack of frames; a frame is   *)
(* the activation of RunTarget (pc = "deps", the loop over Dependencies)   *)
(* that tail-calls Target.Run (pc = "checks", then "actions").             *)
(***************************************************************************)
EXTENDS Integers, Sequences, FiniteSets, TLC

\* ---------------------------------------------------------------- bounds
NumTargets == 3          \* target ids in the table are 1..NumTargets
MaxEdges   == 3          \* total number of declared dependencies in a table
NumChecks  == 2          \* checks of the target under test (policy tables)
NumActions == 2          \* actions of the target under test (policy tables)
ChainLen   == 3          \* targets of a policy table: target i depends on i - 1
NumDocs    == 3          \* documents in the store: 1..NumDocs
MaxInterval   == 2       \* daemon-interval is 0..MaxInterval seconds
MaxTimeout    == 3       \* daemon-timeout is 0..MaxTimeout seconds
MaxIterations == 3       \* daemon-iterations is 0..MaxIterations
MaxRuns    == 4          \* Running phases DefaultApp is followed through
MaxTime    == 7          \* seconds the clock is followed through

Ids       == 1..NumTargets
MissingId == 0           \* an id that no document declares

\* ------------------------------------------------------- *bool pointers
\* A Go *bool is nil or points to a value: <<>> or <<b>>.
Nil      == <<>>
PtrTo(b) == <<b>>
PtrBool  == {Nil, PtrTo(TRUE), PtrTo(FALSE)}

VARIABLES
    Targets,    \* Duck.Targets: id -> Target (Checks, Actions, Cleared, Config, Dependencies)
    ctxDone,    \* the context passed to every call has been cancelled
    lineage,    \* the lineage map shared by the RunTarget calls of one top-level call
    stack,      \* activations of RunTarget / Target.Run, innermost last
    ret,        \* "none" (no call returned yet / call running), "nil", "err", "exit"
    bodies,     \* history: the targets whose body (Target.Run past its entry) ran in
                \*          the current top-level call, in order
    last,       \* history: the check or action executed by the latest step
    root,       \* history: the target the current top-level call was made on
    fresh,      \* history: the current top-level call is RunTarget with an empty
                \*          lineage on a table without any Cleared target
    observed,   \* history: a component saw the cancelled context in this call
    Files,      \* Duck.Config.Files: the locators supplied to the run
    docs,       \* the documents the locators resolve to (what the stores hold)
    Duckfiles,  \* Duck.Duckfiles: the documents LoadDuckfile has been called on
    next,       \* CompileTargets: index in Files of the next locator to load
    fetched,    \* history: the documents fetched, with the recurse flag, in order
    konfig,     \* DefaultApp: the parsed command line (daemon, daemon-interval,
                \*          daemon-timeout, daemon-iterations, list-targets)
    phase,      \* DefaultApp: "top" (head of the loop), "running" (in Duck.Run),
                \*          "sleeping" (in the inner select), "terminated"
    iterationCount, \* DefaultApp: intervals elapsed
    timeoutCh,  \* DefaultApp: nil, or the time at which the deadline timer fires
    wake,       \* the time at which the interval timer of the current sleep fires
    now,        \* the clock, in seconds
    appret,     \* what DefaultApp returned: "none" (not yet), "nil", "err"
    runs,       \* history: the Running phases started (NewDuck calls)
    arms,       \* history: the times the deadline timer was armed
    slept,      \* history: the seconds spent in Sleeping phases
    listed      \* standard output: the target ids ListTargets has printed

\* The state of the resolver.
cvars == <<Files, docs, Duckfiles, next, fetched>>

\* The state of DefaultApp.
dvars == <<konfig, phase, iterationCount, timeoutCh, wake, now, appret, runs, arms, slept,
           listed>>

vars == <<Targets, ctxDone, lineage, stack, ret, bodies, last, root, fresh, observed,
          Files, docs, Duckfiles, next, fetched,
          konfig, phase, iterationCount, timeoutCh, wake, now, appret, runs, arms, slept,
          listed>>

\* ------------------------------------------------------------ structure
CheckConfig(inv, cancel, exit) ==
    [Invert |-> inv, CancelOnFailure |-> cancel, ExitOnFailure |-> exit]

ActionConfig(cancel, exit) ==
    [CancelOnFailure |-> cancel, ExitOnFailure |-> exit]

TargetConfig(cc, ca, ec, ea) ==
    [CancelOnCheckFailure |-> cc, CancelOnActionFailure |-> ca,
     ExitOnCheckFailure |-> ec, ExitOnActionFailure |-> ea]

NewCheck(cfg)  == [Status |-> FALSE, Config |-> cfg]

NewAction(cfg) == [Config |-> cfg]

NewTarget(id, checks, actions, cfg, deps) ==
    [Id |-> id, Checks |-> checks, Actions |-> actions, Cleared |-> FALSE,
     Config |-> cfg, Dependencies |-> deps]

Top(stk)   == stk[Len(stk)]
Front(stk) == SubSeq(stk, 1, Len(stk) - 1)

Frame(id, pc, i) == [id |-> id, pc |-> pc, i |-> i]

Item(ev, id, k, out) == [ev |-> ev, t |-> id, k |-> k, out |-> out]

NoItem == Item("none", MissingId, 0, "none")

\* ------------------------------------------------------- pure functions
\* Check without the inversion.
Check_NoInvert(chk) == chk.Status

\* DummyCheck.Check (and every other plugin's Check): Status != Invert.
Check(chk) == chk.Status # chk.Config.Invert

\* Target.Run, lines 89-90.
CheckShouldExit(chkcfg, tcfg) ==
    \/ (chkcfg.ExitOnFailure # Nil /\ chkcfg.ExitOnFailure[1])
    \/ (chkcfg.ExitOnFailure = Nil /\ tcfg.ExitOnCheckFailure # Nil
            /\ tcfg.ExitOnCheckFailure[1])

\* CheckShouldCancel with the target-level default winning over the item.
CheckShouldCancel_TargetFirst(chkcfg, tcfg) ==
    \/ (tcfg.CancelOnCheckFailure # Nil /\ tcfg.CancelOnCheckFailure[1])
    \/ (tcfg.CancelOnCheckFailure = Nil /\ chkcfg.CancelOnFailure # Nil
            /\ chkcfg.CancelOnFailure[1])

\* CheckShouldCancel with an override that is set counting as true.
CheckShouldCancel_SetIsTrue(chkcfg, tcfg) ==
    \/ chkcfg.CancelOnFailure # Nil
    \/ (tcfg.CancelOnCheckFailure # Nil /\ tcfg.CancelOnCheckFailure[1])

\* Target.Run, lines 97-98.
CheckShouldCancel(chkcfg, tcfg) ==
    \/ (chkcfg.CancelOnFailure # Nil /\ chkcfg.CancelOnFailure[1])
    \/ (chkcfg.CancelOnFailure = Nil /\ tcfg.CancelOnCheckFailure # Nil
            /\ tcfg.CancelOnCheckFailure[1])

\* Target.Run, lines 116-117.
ActionShouldExit(actioncfg, tcfg) ==
    \/ (actioncfg.ExitOnFailure # Nil /\ actioncfg.ExitOnFailure[1])
    \/ (actioncfg.ExitOnFailure = Nil /\ tcfg.ExitOnActionFailure # Nil
            /\ tcfg.ExitOnActionFailure[1])

\* Target.Run, lines 124-125.
ActionShouldCancel(actioncfg, tcfg) ==
    \/ (actioncfg.CancelOnFailure # Nil /\ actioncfg.CancelOnFailure[1])
    \/ (actioncfg.CancelOnFailure = Nil /\ tcfg.CancelOnActionFailure # Nil
            /\ tcfg.CancelOnActionFailure[1])

\* CheckOutcome with an Execute error handled like a failed check.
CheckOutcome_ErrByPolicy(c, tcfg, out) ==
    IF out # "err" /\ Check([c EXCEPT !.Status = (out = "true")]) THEN "pass"
    ELSE IF CheckShouldExit(c.Config, tcfg) THEN "exit"
    ELSE IF CheckShouldCancel(c.Config, tcfg) THEN "cancel"
    ELSE "soft"

\* Target.Run, lines 80-107: what one iteration of the loop over Checks does
\* with a check whose Execute did out ("err", or the Status it stored).
CheckOutcome(c, tcfg, out) ==
    IF out = "err" THEN "err"
    ELSE LET chk == [c EXCEPT !.Status = (out = "true")] IN
         IF Check(chk) THEN "pass"
         ELSE IF CheckShouldExit(chk.Config, tcfg) THEN "exit"
         ELSE IF CheckShouldCancel(chk.Config, tcfg) THEN "cancel"
         ELSE "soft"

\* ActionOutcome with every error of Execute cancelling the run.
ActionOutcome_ErrCancels(act, tcfg, out) ==
    IF out = "ok" THEN "pass"
    ELSE IF ActionShouldExit(act.Config, tcfg) THEN "exit"
    ELSE "cancel"

\* ActionOutcome with the cancel policy decided before the exit policy.
ActionOutcome_CancelFirst(act, tcfg, out) ==
    IF out = "ok" THEN "pass"
    ELSE IF ActionShouldCancel(act.Config, tcfg) THEN "cancel"
    ELSE IF ActionShouldExit(act.Config, tcfg) THEN "exit"
    ELSE "soft"

\* Target.Run, lines 113-134: what one iteration of the loop over Actions
\* does with an action whose Execute returned out ("ok" for nil, or "err").
ActionOutcome(act, tcfg, out) ==
    IF out = "ok" THEN "pass"
    ELSE IF ActionShouldExit(act.Config, tcfg) THEN "exit"
    ELSE IF ActionShouldCancel(act.Config, tcfg) THEN "cancel"
    ELSE "soft"

\* RunTargetEntry without the Cleared test of lines 424-428.
RunTargetEntry_NoCleared(T, done, lin, target) ==
    IF done THEN "cancelled"
    ELSE IF target \notin DOMAIN T THEN "notfound"
    ELSE IF target \in lin THEN "inlineage"
    ELSE "descend"

\* RunTargetEntry with the lineage test before the existence test.
RunTargetEntry_LineageFirst(T, done, lin, target) ==
    IF done THEN "cancelled"
    ELSE IF target \in lin THEN "inlineage"
    ELSE IF target \notin DOMAIN T THEN "notfound"
    ELSE IF T[target].Cleared THEN "cleared"
    ELSE "descend"

\* RunTargetEntry without the lineage test of lines 419-422.
RunTargetEntry_NoLineage(T, done, lin, target) ==
    IF done THEN "cancelled"
    ELSE IF target \notin DOMAIN T THEN "notfound"
    ELSE IF T[target].Cleared THEN "cleared"
    ELSE "descend"

\* RunTarget, lines 409-428: what the entry of RunTarget(target, lineage) decides.
RunTargetEntry(T, done, lin, target) ==
    IF done THEN "cancelled"
    ELSE IF target \notin DOMAIN T THEN "notfound"
    ELSE IF target \in lin THEN "inlineage"
    ELSE IF T[target].Cleared THEN "cleared"
    ELSE "descend"

\* Target.Run, lines 69-77: what the entry of Target.Run decides.
TargetRunEntry(t, done) ==
    IF t.Cleared THEN "cleared"
    ELSE IF done THEN "cancelled"
    ELSE "body"

\* ReturnTo with a caller that drops the error of its dependency and goes on
\* with the next one.
RECURSIVE ReturnTo_ErrDropped(_, _)
ReturnTo_ErrDropped(stk, val) ==
    IF stk = <<>> THEN [stack |-> <<>>, ret |-> val]
    ELSE [stack |-> [stk EXCEPT ![Len(stk)].i = @ + 1], ret |-> "none"]

\* A call returns val ("nil" or "err") to its caller: the caller is the
\* RunTarget activation on top of stk, inside its loop over Dependencies
\* (lines 437-441), or the top-level caller when stk is empty.
RECURSIVE ReturnTo(_, _)
ReturnTo(stk, val) ==
    IF stk = <<>> THEN [stack |-> <<>>, ret |-> val]
    ELSE IF val = "err" THEN ReturnTo(Front(stk), "err")
    ELSE [stack |-> [stk EXCEPT ![Len(stk)].i = @ + 1], ret |-> "none"]


\* ------------------------------------------------------ initial states
\* Every plugin's Execute starts with ctx.Err(); the tables below are what
\* CompileTargets leaves in Duck.Targets (no target Cleared).

DefaultCheck  == NewCheck(CheckConfig(FALSE, Nil, Nil))

DefaultAction == NewAction(ActionConfig(Nil, Nil))

\* LoadConfig without the default tag of CancelOnActionFailure.
LoadConfig_NoDefault(cfg) == cfg

\* ConfigHelper.Load on a Target: defaults.Set puts the `default:"true"` of
\* CancelOnActionFailure, then the unmarshalling overwrites the keys the
\* document sets; cfg holds the keys of the document (Nil: key absent).
LoadConfig(cfg) ==
    [cfg EXCEPT !.CancelOnActionFailure = IF @ = Nil THEN PtrTo(TRUE) ELSE @]

\* Target.Config of a target whose document sets no policy.
DefaultConfig == LoadConfig(TargetConfig(Nil, Nil, Nil, Nil))

\* Dependency graphs: every set of at most MaxEdges edges from a declared
\* target to a declared target or to MissingId (self-loops and cycles
\* included); a target lists its dependencies in ascending order of id.
RECURSIVE Ascending(_)
Ascending(S) ==
    IF S = {} THEN <<>>
    ELSE LET m == CHOOSE x \in S : \A y \in S : x <= y IN <<m>> \o Ascending(S \ {m})

Graphs == {E \in SUBSET (Ids \X (Ids \cup {MissingId})) : Cardinality(E) <= MaxEdges}

\* Target-level policies used with the dependency graphs: a failing check
\* soft-stops or exits, a failing action cancels or soft-stops.
GraphConfigs ==
    {DefaultConfig,
     TargetConfig(Nil, PtrTo(FALSE), PtrTo(TRUE), Nil)}

GraphTable(E, cfg) ==
    [id \in Ids |-> NewTarget(id, <<DefaultCheck>>, <<DefaultAction>>, cfg,
                              Ascending({d \in Ids \cup {MissingId} : <<id, d>> \in E}))]

GraphTables == {GraphTable(E, cfg) : E \in Graphs, cfg \in GraphConfigs}

\* Policy tables: target 1 carries the items under test, target i > 1 depends on i - 1.
ChainDeps(id) == IF id = 1 THEN <<>> ELSE <<id - 1>>

PolicyTable(chk, act, cfg) ==
    [id \in 1..ChainLen |->
        IF id = 1
        THEN NewTarget(1, [k \in 1..NumChecks |-> NewCheck(chk)],
                       [k \in 1..NumActions |-> NewAction(act)], cfg, <<>>)
        ELSE NewTarget(id, <<DefaultCheck>>, <<DefaultAction>>, DefaultConfig,
                       ChainDeps(id))]

CheckPolicyTables ==
    {PolicyTable(CheckConfig(inv, c, e), ActionConfig(Nil, Nil),
                 TargetConfig(cc, PtrTo(TRUE), ec, Nil)) :
        inv \in BOOLEAN, c \in PtrBool, e \in PtrBool, cc \in PtrBool, ec \in PtrBool}

ActionPolicyTables ==
    {PolicyTable(CheckConfig(FALSE, Nil, Nil), ActionConfig(c, e),
                 TargetConfig(Nil, ca, Nil, ea)) :
        c \in PtrBool, e \in PtrBool, ca \in PtrBool, ea \in PtrBool}

PolicyTables == CheckPolicyTables \cup ActionPolicyTables

\* Lineages a caller passes to RunTarget(target): empty, every id, every id
\* but the target.
Lineages(S, target) == {{}, S, S \ {target}}

\* DefaultApp without daemon mode, in the Duck.Run of its one Running phase.
Konfig(daemon, interval, timeout, iterations) ==
    [daemon |-> daemon, interval |-> interval, timeout |-> timeout,
     iterations |-> iterations, ListTargets |-> FALSE]

InRun ==
    /\ konfig = Konfig(FALSE, 0, 0, 0)
    /\ phase = "running"
    /\ iterationCount = 0
    /\ timeoutCh = Nil
    /\ wake = 0
    /\ now = 0
    /\ appret = "none"
    /\ runs = 1
    /\ arms = 0
    /\ slept = 0
    /\ listed = {}

\* The resolver after CompileTargets has built the table (its documents
\* are not kept).
Compiled ==
    /\ Files = <<>>
    /\ docs = <<>>
    /\ Duckfiles = {}
    /\ next = 1
    /\ fetched = <<>>

InitWith(tables) ==
    /\ Compiled
    /\ InRun
    /\ Targets \in tables
    /\ ctxDone = FALSE
    /\ lineage = {}
    /\ stack = <<>>
    /\ ret = "none"
    /\ bodies = <<>>
    /\ last = NoItem
    /\ root = MissingId
    /\ fresh = FALSE
    /\ observed = FALSE

Init == InitWith(GraphTables)

InitPolicy == InitWith(PolicyTables)

\* ------------------------------------------------------------- actions
Running == stack # <<>> /\ ret = "none"

Idle == stack = <<>> /\ ret # "exit"

\* val is returned to the caller on top of stk; the lineage map is the
\* top-level caller's local and is dropped when the top-level call returns.
Return(stk, val, lin) ==
    LET r == ReturnTo(stk, val) IN
    /\ stack' = r.stack
    /\ ret' = r.ret
    /\ lineage' = (IF r.stack = <<>> THEN {} ELSE lin)

\* RunTarget(target, lin) invoked with the activations stk below it.
Invoke(stk, lin, target, obs) ==
    LET e == RunTargetEntry(Targets, ctxDone, lin, target) IN
    /\ observed' = (obs \/ e = "cancelled")
    /\ IF e = "descend"
          THEN /\ lineage' = lin \cup {target}
               /\ stack' = Append(stk, Frame(target, "deps", 1))
               /\ ret' = "none"
          ELSE Return(stk, IF e \in {"cancelled", "notfound"} THEN "err" ELSE "nil", lin)
    /\ last' = NoItem
    /\ UNCHANGED <<Targets, ctxDone>>
    /\ UNCHANGED cvars
    /\ UNCHANGED dvars

\* A caller (Duck.Run with a new empty lineage, or any other caller) invokes RunTarget.
CallRunTarget(target, lin) ==
    /\ Idle
    /\ root' = target
    /\ fresh' = (lin = {} /\ \A t \in DOMAIN Targets : ~Targets[t].Cleared)
    /\ bodies' = <<>>
    /\ Invoke(<<>>, lin, target, FALSE)

\* RunTarget, lines 437-441: the next dependency is visited.
VisitDependency ==
    /\ Running
    /\ Top(stack).pc = "deps"
    /\ Top(stack).i <= Len(Targets[Top(stack).id].Dependencies)
    /\ Invoke(stack, lineage, Targets[Top(stack).id].Dependencies[Top(stack).i], observed)
    /\ UNCHANGED <<bodies, root, fresh>>

\* EnterRun that resets Cleared and runs the body again.
EnterRun_Reset(stk, id, obs, bds, lin) ==
    /\ observed' = (obs \/ ctxDone)
    /\ IF ~ctxDone
          THEN /\ stack' = Append(stk, Frame(id, "checks", 1))
               /\ ret' = "none"
               /\ lineage' = lin
               /\ bodies' = Append(bds, id)
          ELSE /\ Return(stk, "err", lin)
               /\ bodies' = bds
    /\ last' = NoItem
    /\ Targets' = [Targets EXCEPT ![id].Cleared = FALSE]
    /\ UNCHANGED ctxDone
    /\ UNCHANGED cvars
    /\ UNCHANGED dvars

\* Target.Run entry (lines 63-77) for target id, called with stk below it.
EnterRun(stk, id, obs, bds, lin) ==
    LET e == TargetRunEntry(Targets[id], ctxDone) IN
    /\ observed' = (obs \/ e = "cancelled")
    /\ IF e = "body"
          THEN /\ stack' = Append(stk, Frame(id, "checks", 1))
               /\ ret' = "none"
               /\ lineage' = lin
               /\ bodies' = Append(bds, id)
          ELSE /\ Return(stk, IF e = "cancelled" THEN "err" ELSE "nil", lin)
               /\ bodies' = bds
    /\ last' = NoItem
    /\ UNCHANGED <<Targets, ctxDone>>
    /\ UNCHANGED cvars
    /\ UNCHANGED dvars

\* RunBody without waiting for the loop over Dependencies to end.
RunBody_Early ==
    /\ Running
    /\ Top(stack).pc = "deps"
    /\ EnterRun(Front(stack), Top(stack).id, observed, bodies, lineage)
    /\ UNCHANGED <<root, fresh>>

\* RunTarget, line 445: every dependency returned nil, the target's body is run.
RunBody ==
    /\ Running
    /\ Top(stack).pc = "deps"
    /\ Top(stack).i > Len(Targets[Top(stack).id].Dependencies)
    /\ EnterRun(Front(stack), Top(stack).id, observed, bodies, lineage)
    /\ UNCHANGED <<root, fresh>>

\* A caller invokes Target.Run directly.
CallRun(id) ==
    /\ Idle
    /\ id \in DOMAIN Targets
    /\ root' = id
    /\ fresh' = FALSE
    /\ EnterRun(<<>>, id, FALSE, <<>>, {})

\* Apply that marks the target Cleared on the error returns as well.
Apply_ClearedOnErr(o) ==
    LET id == Top(stack).id IN
    CASE o = "pass" ->
            /\ stack' = [stack EXCEPT ![Len(stack)].i = @ + 1]
            /\ UNCHANGED <<Targets, ret, lineage>>
      [] o = "exit" ->
            /\ ret' = "exit"
            /\ UNCHANGED <<Targets, stack, lineage>>
      [] o \in {"err", "cancel", "soft"} ->
            /\ Targets' = [Targets EXCEPT ![id].Cleared = TRUE]
            /\ Return(Front(stack), IF o = "soft" THEN "nil" ELSE "err", lineage)

\* The effect of an iteration whose outcome is o, in both loops of Target.Run:
\* go on with the next item, os.Exit(1), return the error, or mark the target
\* Cleared and return nil.
Apply(o) ==
    LET id == Top(stack).id IN
    CASE o = "pass" ->
            /\ stack' = [stack EXCEPT ![Len(stack)].i = @ + 1]
            /\ UNCHANGED <<Targets, ret, lineage>>
      [] o = "exit" ->
            /\ ret' = "exit"
            /\ UNCHANGED <<Targets, stack, lineage>>
      [] o \in {"err", "cancel"} ->
            /\ Return(Front(stack), "err", lineage)
            /\ UNCHANGED Targets
      [] o = "soft" ->
            /\ Targets' = [Targets EXCEPT ![id].Cleared = TRUE]
            /\ Return(Front(stack), "nil", lineage)

\* Target.Run, lines 79-108: one iteration of the loop over Checks.
\* out is what Execute did: "err", or the Status it stored. Execute stores
\* Status before every read of it by Check, so the value Status has between
\* two executions is not kept in the table.
ExecuteCheck(out) ==
    /\ Running
    /\ Top(stack).pc = "checks"
    /\ Top(stack).i <= Len(Targets[Top(stack).id].Checks)
    /\ ctxDone => out = "err"
    /\ last' = Item("check", Top(stack).id, Top(stack).i, out)
    /\ observed' = (observed \/ ctxDone)
    /\ Apply(CheckOutcome(Targets[Top(stack).id].Checks[Top(stack).i],
                          Targets[Top(stack).id].Config, out))
    /\ UNCHANGED <<ctxDone, bodies, root, fresh>>
    /\ UNCHANGED cvars
    /\ UNCHANGED dvars

\* ChecksPassed that leaves the loop over Checks after its first iteration.
ChecksPassed_Early ==
    /\ Running
    /\ Top(stack).pc = "checks"
    /\ Top(stack).i > 1
    /\ stack' = [stack EXCEPT ![Len(stack)] = Frame(@.id, "actions", 1)]
    /\ last' = NoItem
    /\ UNCHANGED <<Targets, ctxDone, lineage, ret, bodies, root, fresh, observed>>
    /\ UNCHANGED cvars
    /\ UNCHANGED dvars

\* Target.Run, line 111: every check passed.
ChecksPassed ==
    /\ Running
    /\ Top(stack).pc = "checks"
    /\ Top(stack).i > Len(Targets[Top(stack).id].Checks)
    /\ stack' = [stack EXCEPT ![Len(stack)] = Frame(@.id, "actions", 1)]
    /\ last' = NoItem
    /\ UNCHANGED <<Targets, ctxDone, lineage, ret, bodies, root, fresh, observed>>
    /\ UNCHANGED cvars
    /\ UNCHANGED dvars

\* Target.Run, lines 112-136: one iteration of the loop over Actions.
\* out is what Execute returned: "ok" (nil) or "err".
ExecuteAction(out) ==
    /\ Running
    /\ Top(stack).pc = "actions"
    /\ Top(stack).i <= Len(Targets[Top(stack).id].Actions)
    /\ ctxDone => out = "err"
    /\ last' = Item("action", Top(stack).id, Top(stack).i, out)
    /\ observed' = (observed \/ ctxDone)
    /\ Apply(ActionOutcome(Targets[Top(stack).id].Actions[Top(stack).i],
                           Targets[Top(stack).id].Config, out))
    /\ UNCHANGED <<ctxDone, bodies, root, fresh>>
    /\ UNCHANGED cvars
    /\ UNCHANGED dvars

\* Target.Run, lines 137-139: every action succeeded.
ActionsDone ==
    /\ Running
    /\ Top(stack).pc = "actions"
    /\ Top(stack).i > Len(Targets[Top(stack).id].Actions)
    /\ Targets' = [Targets EXCEPT ![Top(stack).id].Cleared = TRUE]
    /\ Return(Front(stack), "nil", lineage)
    /\ last' = NoItem
    /\ UNCHANGED <<ctxDone, bodies, root, fresh, observed>>
    /\ UNCHANGED cvars
    /\ UNCHANGED dvars

\* The context is cancelled (signal handler, app.go).
Cancel ==
    /\ ~ctxDone
    /\ ret # "exit"
    /\ ctxDone' = TRUE
    /\ UNCHANGED <<Targets, lineage, stack, ret, bodies, last, root, fresh, observed>>
    /\ UNCHANGED cvars
    /\ UNCHANGED dvars

\* The steps inside a top-level call.
Step ==
    \/ VisitDependency
    \/ RunBody
    \/ \E out \in {"err", "true", "false"} : ExecuteCheck(out)
    \/ ChecksPassed
    \/ \E out \in {"ok", "err"} : ExecuteAction(out)
    \/ ActionsDone

\* Duck.Run, line 70: RunTarget(d.Config.Target) with a new lineage; DefaultApp
\* calls Run once on every Duck it builds.
DuckRun(target) ==
    /\ ret = "none"
    /\ CallRunTarget(target, {})

\* The program: one Duck.Run on a new Duck, under a cancellable context.
Next ==
    \/ \E target \in DOMAIN Targets \cup {MissingId} : DuckRun(target)
    \/ Step
    \/ Cancel

\* Any caller of the exported RunTarget and Target.Run.
NextPolicy ==
    \/ \E target \in DOMAIN Targets :
          \E lin \in Lineages(DOMAIN Targets, target) : CallRunTarget(target, lin)
    \/ CallRunTarget(MissingId, {})
    \/ \E id \in DOMAIN Targets : CallRun(id)
    \/ Step
    \/ Cancel

Spec == Init /\ [][Next]_vars

SpecPolicy == InitPolicy /\ [][NextPolicy]_vars

\* ------------------------------------------------------------- resolver
\* Documents are 1..NumDocs; a locator names one document, or the directory
\* that holds documents 1 and 2.
Docs == 1..NumDocs

DirLocator == NumDocs + 1

Locators == Docs \cup {DirLocator}

\* The reserved top-level key "_meta".
MetaKey == 0

\* A store: for each document the list under _meta.dependencies (deps), the
\* second target id the last document declares (dup; its own id: none), and
\* the order in which the directory lists its documents (listing). At most
\* two documents of a store have a _meta section.
DepLists == {<<>>} \cup {<<d>> : d \in Docs}

Listings == {<<1, 2>>, <<2, 1>>}

\* What fails in a store: GetDuckfiles on the locator at ("expand"), the
\* fetch or the parse of the document at ("fetch"), or the target at carries
\* a check or an action descriptor whose type no selector knows.
NoFault == [kind |-> "none", at |-> MetaKey]

Faults ==
    {NoFault} \cup [kind : {"expand"}, at : Locators]
              \cup [kind : {"fetch", "check", "action"}, at : Docs]

Stores ==
    {D \in [deps : [Docs -> DepLists], dup : Docs, listing : Listings,
            fault : {NoFault}] :
        Cardinality({d \in Docs : D.deps[d] # <<>>}) <= 2}

\* The stores in which something may fail: at most one document has a _meta
\* section, and the directory lists its documents in name order.
FaultyStores ==
    {D \in [deps : [Docs -> DepLists], dup : Docs, listing : {<<1, 2>>},
            fault : Faults] :
        Cardinality({d \in Docs : D.deps[d] # <<>>}) <= 1}

\* Config.Files: one or two locators.
FileLists == {<<a>> : a \in Locators} \cup {<<a, b>> : a, b \in Locators}

\* The target ids document d declares: its own, and dup for the last one.
DocTargets(D, d) == IF d = NumDocs THEN {d, D.dup} ELSE {d}

\* The target document d defines under key id: NewTarget on the document's
\* value for the key; the second target of a document depends on the first.
DocTarget(d, id) ==
    NewTarget(id, <<DefaultCheck>>, <<DefaultAction>>, DefaultConfig,
              IF id = d THEN <<>> ELSE <<d>>)

\* The type selectors of LoadCheck and LoadAction.
CheckTypes == {"dummy", "file", "cron", "localstate", "shell", "rest"}

ActionTypes == {"dummy", "print", "sleep", "localstate", "rest", "shell", "template"}

\* The "type" of the check and of the action descriptor the store holds for
\* target id.
CheckType(D, id) ==
    IF D.fault = [kind |-> "check", at |-> id] THEN "unknown" ELSE "dummy"

ActionType(D, id) ==
    IF D.fault = [kind |-> "action", at |-> id] THEN "unknown" ELSE "dummy"

\* LoadCheck and LoadAction: TRUE when the switch on the type ends in its
\* default branch and an error is returned.
LoadCheck(type) == type \notin CheckTypes

LoadAction(type) == type \notin ActionTypes

\* NewTarget that loads descriptors of every type.
NewTargetErr_AnyType(D, id) == FALSE

\* NewTarget, lines 43-58: TRUE when a descriptor fails to load and NewTarget
\* returns the error instead of a target.
NewTargetErr(D, id) == LoadCheck(CheckType(D, id)) \/ LoadAction(ActionType(D, id))

\* koanf's MapKeys returns the keys sorted as strings: key 1 stands for a
\* name that sorts before "_meta", the other keys for names that sort after.
KeyOrder(key) == IF key = MetaKey THEN 3 ELSE 2 * key

RECURSIVE SortKeys(_)
SortKeys(S) ==
    IF S = {} THEN <<>>
    ELSE LET m == CHOOSE x \in S : \A y \in S : KeyOrder(x) <= KeyOrder(y)
         IN  <<m>> \o SortKeys(S \ {m})

\* k.MapKeys("") of document d.
MapKeys(D, d) ==
    SortKeys(DocTargets(D, d) \cup (IF D.deps[d] # <<>> THEN {MetaKey} ELSE {}))

\* GetDuckfiles: a directory expands to the documents it lists, in listing
\* order; any other locator is one document.
GetDuckfiles(D, floc) == IF floc = DirLocator THEN D.listing ELSE <<floc>>

\* GetDuckfiles, its error result: the locator does not parse, has a scheme
\* that is not supported, or cannot be stat'ed or listed.
GetDuckfilesErr(D, floc) == D.fault = [kind |-> "expand", at |-> floc]

\* loadFileURL, loadHTTPURL, loadCloudURL and the default branch of the switch
\* on the scheme (LoadDuckfile, lines 66-84): TRUE when an error is returned.
LoadURLErr(D, d) == D.fault = [kind |-> "fetch", at |-> d]

\* The record the resolver works on: Duck.Duckfiles, Duck.Targets, the
\* history of fetches, and whether an error has been returned.
Resolver(files, targets, hist, err) ==
    [Duckfiles |-> files, Targets |-> targets, fetched |-> hist, err |-> err]

Fetch(d, recurse) == [doc |-> d, recurse |-> recurse]

\* appendTarget that replaces an existing definition.
appendTarget_Overwrite(D, R, name, d) ==
    [R EXCEPT !.Targets = (name :> DocTarget(d, name)) @@ @]

\* appendTarget, lines 367-379.
appendTarget(D, R, name, d) ==
    IF name \in DOMAIN R.Targets \/ NewTargetErr(D, name)
    THEN [R EXCEPT !.err = TRUE]
    ELSE [R EXCEPT !.Targets = (name :> DocTarget(d, name)) @@ @]

RECURSIVE LoadDuckfile(_, _, _, _)
RECURSIVE LoadDuckfile_NoMemo(_, _, _, _)
RECURSIVE LoadDuckfile_Deep(_, _, _, _)
RECURSIVE LoadKeys(_, _, _, _, _)
RECURSIVE LoadAll(_, _, _, _)
RECURSIVE LoadDeps(_, _, _)

\* The loop over the documents a locator expands to (lines 39-43, 97-101).
LoadAll(D, R, urls, recurse) ==
    IF urls = <<>> \/ R.err THEN R
    ELSE LoadAll(D, LoadDuckfile(D, R, Head(urls), recurse), Tail(urls), recurse)

\* LoadDuckfile, lines 91-103: the documents of _meta.dependencies are
\* loaded with recurse = false.
LoadDeps(D, R, deps) ==
    IF deps = <<>> \/ R.err THEN R
    ELSE IF GetDuckfilesErr(D, Head(deps)) THEN [R EXCEPT !.err = TRUE]
    ELSE LoadDeps(D, LoadAll(D, R, GetDuckfiles(D, Head(deps)), FALSE), Tail(deps))

\* LoadDuckfile, lines 87-113: the loop over the top-level keys of document d.
LoadKeys(D, R, d, keys, recurse) ==
    IF keys = <<>> \/ R.err THEN R
    ELSE IF Head(keys) = MetaKey
         THEN LoadKeys(D, IF recurse THEN LoadDeps(D, R, D.deps[d]) ELSE R,
                       d, Tail(keys), recurse)
         ELSE LoadKeys(D, appendTarget(D, R, Head(keys), d), d, Tail(keys), recurse)

\* LoadDuckfile, lines 61-84: the document is recorded in Duck.Duckfiles and
\* then fetched and parsed; a failure is returned as the error.
LoadURL(D, R, d, recurse) ==
    [R EXCEPT !.Duckfiles = @ \cup {d},
              !.fetched = Append(@, Fetch(d, recurse)),
              !.err = LoadURLErr(D, d)]

\* LoadDuckfile without the test of Duck.Duckfiles.
LoadDuckfile_NoMemo(D, R, d, recurse) ==
    LoadKeys(D, LoadURL(D, R, d, recurse), d, MapKeys(D, d), recurse)

\* LoadDuckfile that expands the dependencies of every document.
LoadDuckfile_Deep(D, R, d, recurse) ==
    IF d \in R.Duckfiles THEN R
    ELSE LoadKeys(D, LoadURL(D, R, d, recurse), d, MapKeys(D, d), TRUE)

\* LoadDuckfile, lines 52-116: a document already in Duck.Duckfiles is not
\* loaded again; otherwise it is recorded, fetched, and its keys are loaded.
LoadDuckfile(D, R, d, recurse) ==
    IF d \in R.Duckfiles THEN R
    ELSE LoadKeys(D, LoadURL(D, R, d, recurse), d, MapKeys(D, d), recurse)

\* CompileTargets, lines 33-44, on the locators files.
RECURSIVE CompileFiles(_, _, _)
CompileFiles(D, R, files) ==
    IF files = <<>> \/ R.err THEN R
    ELSE IF GetDuckfilesErr(D, Head(files)) THEN [R EXCEPT !.err = TRUE]
    ELSE CompileFiles(D, LoadAll(D, R, GetDuckfiles(D, Head(files)), TRUE), Tail(files))

\* The resolver's current state.
Cur == Resolver(Duckfiles, Targets, fetched, FALSE)

\* A new Duck (NewDuck: empty Duckfiles and Targets) with its locators, and
\* the documents they resolve to.
InitFrom(lists, stores) ==
    /\ InRun
    /\ Files \in lists
    /\ docs \in stores
    /\ Duckfiles = {}
    /\ next = 1
    /\ fetched = <<>>
    /\ Targets = <<>>
    /\ ctxDone = FALSE
    /\ lineage = {}
    /\ stack = <<>>
    /\ ret = "none"
    /\ bodies = <<>>
    /\ last = NoItem
    /\ root = MissingId
    /\ fresh = FALSE
    /\ observed = FALSE

InitResolve == InitFrom(FileLists, Stores)

\* CompileStep that goes on with the next locator after an error.
CompileStep_Partial ==
    /\ Files # <<>>
    /\ ret = "none"
    /\ stack = <<>>
    /\ next <= Len(Files)
    /\ LET R == IF ctxDone \/ GetDuckfilesErr(docs, Files[next])
                THEN Cur
                ELSE LoadAll(docs, Cur, GetDuckfiles(docs, Files[next]), TRUE) IN
       /\ Targets' = R.Targets
       /\ Duckfiles' = R.Duckfiles
       /\ fetched' = R.fetched
    /\ ret' = "none"
    /\ next' = next + 1
    /\ observed' = (observed \/ ctxDone)
    /\ UNCHANGED <<ctxDone, lineage, stack, bodies, last, root, fresh, Files, docs>>
    /\ UNCHANGED dvars

\* CompileTargets, lines 33-44: one iteration of the loop over Config.Files.
\* Every function on the way tests ctx.Err() first. An error is returned by
\* CompileTargets and by Duck.Run (part_011 62-64).
CompileStep ==
    /\ Files # <<>>
    /\ ret = "none"
    /\ stack = <<>>
    /\ next <= Len(Files)
    /\ LET R == IF ctxDone \/ GetDuckfilesErr(docs, Files[next])
                THEN [Cur EXCEPT !.err = TRUE]
                ELSE LoadAll(docs, Cur, GetDuckfiles(docs, Files[next]), TRUE) IN
       /\ Targets' = R.Targets
       /\ Duckfiles' = R.Duckfiles
       /\ fetched' = R.fetched
       /\ ret' = (IF R.err THEN "err" ELSE "none")
       /\ next' = (IF R.err THEN next ELSE next + 1)
    /\ observed' = (observed \/ ctxDone)
    /\ UNCHANGED <<ctxDone, lineage, stack, bodies, last, root, fresh, Files, docs>>
    /\ UNCHANGED dvars

\* RunCompiled that does not look at the list-targets flag.
RunCompiled_IgnoreFlag(target) ==
    /\ Files # <<>>
    /\ next = Len(Files) + 1
    /\ DuckRun(target)

\* Duck.Run, lines 66-70, after CompileTargets returned nil: RunTarget on
\* Config.Target, unless Config.ListTargets is set.
RunCompiled(target) ==
    /\ Files # <<>>
    /\ next = Len(Files) + 1
    /\ ~konfig.ListTargets
    /\ DuckRun(target)

\* Duck.Run, lines 66-68, and ListTargets (file.go 384-400), after
\* CompileTargets returned nil: the context is tested, an empty table is
\* compiled once more, and the ids of the table are printed.
ListTargets ==
    /\ Files # <<>>
    /\ next = Len(Files) + 1
    /\ ret = "none"
    /\ stack = <<>>
    /\ konfig.ListTargets
    /\ IF ctxDone
       THEN /\ ret' = "err"
            /\ observed' = TRUE
            /\ UNCHANGED <<Targets, Duckfiles, fetched, listed>>
       ELSE LET R == IF DOMAIN Targets = {} THEN CompileFiles(docs, Cur, Files) ELSE Cur IN
            /\ Targets' = R.Targets
            /\ Duckfiles' = R.Duckfiles
            /\ fetched' = R.fetched
            /\ ret' = (IF R.err THEN "err" ELSE "nil")
            /\ listed' = (IF R.err THEN listed ELSE listed \cup DOMAIN R.Targets)
            /\ UNCHANGED observed
    /\ UNCHANGED <<ctxDone, lineage, stack, bodies, last, root, fresh, Files, docs, next>>
    /\ UNCHANGED <<konfig, phase, iterationCount, timeoutCh, wake, now, appret, runs, arms, slept>>

\* Duck.Run on a new Duck, up to its call of RunTarget.
NextResolve ==
    \/ CompileStep
    \/ \E target \in Docs : RunCompiled(target)
    \/ Cancel

SpecResolve == InitResolve /\ [][NextResolve]_vars

\* Duck.Run on a new Duck whose documents may fail to resolve, to its end.
InitLoad == InitFrom(FileLists, FaultyStores)

NextLoad ==
    \/ CompileStep
    \/ \E target \in Docs : RunCompiled(target)
    \/ Step
    \/ Cancel

SpecLoad == InitLoad /\ [][NextLoad]_vars

\* Duck.Run on a new Duck, with and without the list-targets flag.
InitList ==
    /\ konfig \in {[Konfig(FALSE, 0, 0, 0) EXCEPT !.ListTargets = l] : l \in BOOLEAN}
    /\ phase = "running"
    /\ iterationCount = 0
    /\ timeoutCh = Nil
    /\ wake = 0
    /\ now = 0
    /\ appret = "none"
    /\ runs = 1
    /\ arms = 0
    /\ slept = 0
    /\ listed = {}
    /\ Files \in FileLists
    /\ docs \in FaultyStores
    /\ Duckfiles = {}
    /\ next = 1
    /\ fetched = <<>>
    /\ Targets = <<>>
    /\ ctxDone = FALSE
    /\ lineage = {}
    /\ stack = <<>>
    /\ ret = "none"
    /\ bodies = <<>>
    /\ last = NoItem
    /\ root = MissingId
    /\ fresh = FALSE
    /\ observed = FALSE

NextList ==
    \/ CompileStep
    \/ \E target \in Docs : RunCompiled(target)
    \/ ListTargets
    \/ Step
    \/ Cancel

SpecList == InitList /\ [][NextList]_vars

\* ---------------------------------------------------------- daemon loop
\* Config.Target, by its default: the target named "default".
ConfigTarget == 1

\* The command lines: the four daemon flags, none of them negative.
Konfigs ==
    {Konfig(d, i, t, n) : d \in BOOLEAN, i \in 0..MaxInterval,
                          t \in 0..MaxTimeout, n \in 0..MaxIterations}

\* The store of the daemon runs: one document, which declares its own target
\* and the default target, the latter depending on the former.
DaemonStore ==
    [deps |-> [d \in Docs |-> <<>>], dup |-> ConfigTarget, listing |-> <<1, 2>>,
     fault |-> NoFault]

\* Config.Files: the key is not set, or names that document.
DaemonFiles == {<<>>, <<NumDocs>>}

\* NewDuck that hands out the maps of the previous Duck.
NewDuck_Keep(files) ==
    [err |-> files = <<>>, Duckfiles |-> Duckfiles, Targets |-> Targets]

\* NewDuck: the configuration is loaded and validated (Files is required), and
\* the Duck gets new, empty maps.
NewDuck(files) ==
    [err |-> files = <<>>, Duckfiles |-> {}, Targets |-> <<>>]

\* DefaultApp, lines 19-21, before the loop.
InitDaemon ==
    /\ konfig \in Konfigs
    /\ phase = "top"
    /\ iterationCount = 0
    /\ timeoutCh = Nil
    /\ wake = 0
    /\ now = 0
    /\ appret = "none"
    /\ runs = 0
    /\ arms = 0
    /\ slept = 0
    /\ listed = {}
    /\ Files \in DaemonFiles
    /\ docs = DaemonStore
    /\ Duckfiles = {}
    /\ next = 1
    /\ fetched = <<>>
    /\ Targets = <<>>
    /\ ctxDone = FALSE
    /\ lineage = {}
    /\ stack = <<>>
    /\ ret = "none"
    /\ bodies = <<>>
    /\ last = NoItem
    /\ root = MissingId
    /\ fresh = FALSE
    /\ observed = FALSE

\* The variables of the Duck and of its run.
rvars == <<Targets, lineage, stack, ret, bodies, last, root, fresh, observed,
           Duckfiles, next, fetched>>

\* DefaultApp returns val: running = false and line 76, or a return in the loop.
Terminate(val) ==
    /\ phase' = "terminated"
    /\ appret' = val
    /\ wake' = 0

\* Lines 32-35: the context is done at the head of the loop.
LoopCancelled ==
    /\ phase = "top"
    /\ ctxDone
    /\ Terminate("nil")
    /\ UNCHANGED <<listed, konfig, iterationCount, timeoutCh, now, runs, arms, slept>>
    /\ UNCHANGED <<rvars, ctxDone, Files, docs>>

\* Lines 36-40: the default case; NewDuck is called and its error returned.
StartRun ==
    /\ phase = "top"
    /\ ~ctxDone
    /\ runs < MaxRuns
    /\ runs' = runs + 1
    /\ LET d == NewDuck(Files) IN
       IF d.err
       THEN /\ Terminate("err")
            /\ UNCHANGED rvars
       ELSE /\ phase' = "running"
            /\ Duckfiles' = d.Duckfiles
            /\ Targets' = d.Targets
            /\ next' = 1
            /\ fetched' = <<>>
            /\ lineage' = {}
            /\ stack' = <<>>
            /\ ret' = "none"
            /\ bodies' = <<>>
            /\ last' = NoItem
            /\ root' = MissingId
            /\ fresh' = FALSE
            /\ observed' = FALSE
            /\ UNCHANGED <<appret, wake>>
    /\ UNCHANGED <<listed, konfig, iterationCount, timeoutCh, now, arms, slept>>
    /\ UNCHANGED <<ctxDone, Files, docs>>

\* Lines 41-51 and 70-72, given the value read for the daemon flag and whether
\* timeoutCh is found nil: the error of Duck.Run is returned; without daemon
\* mode the loop ends; otherwise the deadline timer is armed if there is none
\* and a timeout is set, and the inner select is entered with a new interval
\* timer.
Returned(daemon, unarmed) ==
    /\ phase = "running"
    /\ stack = <<>>
    /\ ret \in {"nil", "err"}
    /\ IF ret = "err"
       THEN /\ Terminate("err")
            /\ UNCHANGED <<timeoutCh, arms>>
       ELSE IF ~daemon
       THEN /\ Terminate("nil")
            /\ UNCHANGED <<timeoutCh, arms>>
       ELSE /\ timeoutCh' = (IF unarmed /\ konfig.timeout > 0
                             THEN <<now + konfig.timeout>> ELSE timeoutCh)
            /\ arms' = (IF unarmed /\ konfig.timeout > 0 THEN arms + 1 ELSE arms)
            /\ wake' = now + konfig.interval
            /\ phase' = "sleeping"
            /\ UNCHANGED appret
    /\ UNCHANGED <<listed, konfig, iterationCount, now, runs, slept>>
    /\ UNCHANGED <<rvars, ctxDone, Files, docs>>

\* RunDone that ends the loop straight after the run that reaches the
\* iteration limit, without the sleep that follows it.
RunDone_NoLastSleep ==
    IF /\ phase = "running" /\ stack = <<>> /\ ret = "nil"
       /\ konfig.daemon /\ konfig.iterations > 0 /\ runs >= konfig.iterations
    THEN /\ Terminate("nil")
         /\ iterationCount' = iterationCount + 1
         /\ UNCHANGED <<listed, konfig, timeoutCh, now, runs, arms, slept>>
         /\ UNCHANGED <<rvars, ctxDone, Files, docs>>
    ELSE Returned(konfig.daemon, timeoutCh = Nil)

\* RunDone that arms the deadline timer on every entry to the sleep.
RunDone_Rearm == Returned(konfig.daemon, TRUE)

\* RunDone that sleeps and runs again whatever the daemon flag is.
RunDone_Sleep == Returned(TRUE, timeoutCh = Nil)

\* RunDone that sleeps after a failed run.
RunDone_ErrSleeps ==
    /\ phase = "running"
    /\ stack = <<>>
    /\ ret \in {"nil", "err"}
    /\ IF ~konfig.daemon
       THEN /\ Terminate(ret)
            /\ UNCHANGED <<timeoutCh, arms>>
       ELSE /\ timeoutCh' = (IF timeoutCh = Nil /\ konfig.timeout > 0
                             THEN <<now + konfig.timeout>> ELSE timeoutCh)
            /\ arms' = (IF timeoutCh = Nil /\ konfig.timeout > 0 THEN arms + 1 ELSE arms)
            /\ wake' = now + konfig.interval
            /\ phase' = "sleeping"
            /\ UNCHANGED appret
    /\ UNCHANGED <<listed, konfig, iterationCount, now, runs, slept>>
    /\ UNCHANGED <<rvars, ctxDone, Files, docs>>

\* Duck.Run has returned (lines 41-51, 70-72).
RunDone == Returned(konfig.daemon, timeoutCh = Nil)

\* RunTick in which the deadline, when it passes, cancels the context of the
\* run.
RunTick_Interrupts ==
    /\ phase = "running"
    /\ stack = <<>>
    /\ ret = "none"
    /\ next = 1
    /\ now < MaxTime
    /\ now' = now + 1
    /\ ctxDone' = (ctxDone \/ (timeoutCh # Nil /\ now' >= timeoutCh[1]))
    /\ UNCHANGED <<listed, konfig, phase, iterationCount, timeoutCh, wake, appret, runs, arms, slept>>
    /\ UNCHANGED <<rvars, Files, docs>>

\* A second passes while Duck.Run is in progress.
RunTick ==
    /\ phase = "running"
    /\ stack = <<>>
    /\ ret = "none"
    /\ next = 1
    /\ now < MaxTime
    /\ now' = now + 1
    /\ UNCHANGED <<listed, konfig, phase, iterationCount, timeoutCh, wake, appret, runs, arms, slept>>
    /\ UNCHANGED <<rvars, ctxDone, Files, docs>>

\* A second passes in the inner select: no channel of the select is ready.
SleepTick ==
    /\ phase = "sleeping"
    /\ ~ctxDone
    /\ now < wake
    /\ timeoutCh # Nil => now < timeoutCh[1]
    /\ now < MaxTime
    /\ now' = now + 1
    /\ slept' = slept + 1
    /\ UNCHANGED <<listed, konfig, phase, iterationCount, timeoutCh, wake, appret, runs, arms>>
    /\ UNCHANGED <<rvars, ctxDone, Files, docs>>

\* Lines 53-55: the context is done.
SleepCancelled ==
    /\ phase = "sleeping"
    /\ ctxDone
    /\ Terminate("nil")
    /\ UNCHANGED <<listed, konfig, iterationCount, timeoutCh, now, runs, arms, slept>>
    /\ UNCHANGED <<rvars, ctxDone, Files, docs>>

\* SleepTimeout that leaves the select without ending the loop.
SleepTimeout_Again ==
    /\ phase = "sleeping"
    /\ timeoutCh # Nil
    /\ now >= timeoutCh[1]
    /\ phase' = "top"
    /\ wake' = 0
    /\ UNCHANGED <<listed, konfig, iterationCount, timeoutCh, now, appret, runs, arms, slept>>
    /\ UNCHANGED <<rvars, ctxDone, Files, docs>>

\* Lines 56-59: the deadline timer has fired. (The value stored under "stop"
\* is a context.CancelFunc, so the assertion to func() at line 26 does not
\* hold and the context is left as it is.)
SleepTimeout ==
    /\ phase = "sleeping"
    /\ timeoutCh # Nil
    /\ now >= timeoutCh[1]
    /\ Terminate("nil")
    /\ UNCHANGED <<listed, konfig, iterationCount, timeoutCh, now, runs, arms, slept>>
    /\ UNCHANGED <<rvars, ctxDone, Files, docs>>

\* SleepInterval that tests the limit before it counts the interval.
SleepInterval_TestFirst ==
    /\ phase = "sleeping"
    /\ now >= wake
    /\ iterationCount' = iterationCount + 1
    /\ IF konfig.iterations > 0 /\ iterationCount >= konfig.iterations
       THEN Terminate("nil")
       ELSE /\ phase' = "top"
            /\ wake' = 0
            /\ UNCHANGED appret
    /\ UNCHANGED <<listed, konfig, timeoutCh, now, runs, arms, slept>>
    /\ UNCHANGED <<rvars, ctxDone, Files, docs>>

\* Lines 60-67: the interval timer has fired; the interval is counted and the
\* loop ends when a positive limit is reached.
SleepInterval ==
    /\ phase = "sleeping"
    /\ now >= wake
    /\ iterationCount' = iterationCount + 1
    /\ IF konfig.iterations > 0 /\ iterationCount' >= konfig.iterations
       THEN Terminate("nil")
       ELSE /\ phase' = "top"
            /\ wake' = 0
            /\ UNCHANGED appret
    /\ UNCHANGED <<listed, konfig, timeoutCh, now, runs, arms, slept>>
    /\ UNCHANGED <<rvars, ctxDone, Files, docs>>

\* DefaultApp: the loop, the Duck.Run of each Running phase, the clock and
\* the signal.
NextDaemon ==
    \/ LoopCancelled
    \/ StartRun
    \/ phase = "running" /\ CompileStep
    \/ phase = "running" /\ RunCompiled(ConfigTarget)
    \/ phase = "running" /\ Step
    \/ RunDone
    \/ RunTick
    \/ SleepTick
    \/ SleepCancelled
    \/ SleepTimeout
    \/ SleepInterval
    \/ phase # "terminated" /\ Cancel

SpecDaemon == InitDaemon /\ [][NextDaemon]_vars

\* ------------------------------------------------------ claim vocabulary
DepSet(t) ==
    IF t \in DOMAIN Targets
    THEN {Targets[t].Dependencies[i] : i \in 1..Len(Targets[t].Dependencies)}
    ELSE {}

RECURSIVE Closure(_)
Closure(S) ==
    LET n == S \cup UNION {DepSet(t) : t \in S} IN
    IF n = S THEN S ELSE Closure(n)

\* The transitive dependencies of t (t itself when it lies on a cycle).
TransDeps(t) == Closure(DepSet(t))

Acyclic == \A t \in DOMAIN Targets : t \notin TransDeps(t)

Count(seq, x) == Cardinality({i \in 1..Len(seq) : seq[i] = x})

Pos(seq, x) == CHOOSE i \in 1..Len(seq) : seq[i] = x

\* ----------------------------------------------------------------- C1
\* C1: in an acyclic table, a RunTarget call started with an empty lineage on
\* a new Duck runs no body twice, and when the body of a target starts (the
\* root's in particular) the body of each of its transitive dependencies has
\* run exactly once, earlier, has returned and has left the dependency
\* Cleared; the starting body is then the only activation above its callers.
C1_DepsBeforeBodyOnce ==
    (fresh /\ Acyclic) =>
        /\ \A t \in DOMAIN Targets : Count(bodies, t) <= 1
        /\ \A t \in DOMAIN Targets :
              Count(bodies, t) = 1 =>
                 \A d \in TransDeps(t) :
                    /\ Count(bodies, d) = 1
                    /\ Pos(bodies, d) < Pos(bodies, t)
                    /\ Targets[d].Cleared
        /\ (stack # <<>> /\ Count(bodies, root) = 1) =>
              /\ stack \in {<<Frame(root, "checks", i)>> : i \in 1..(Len(Targets[root].Checks) + 1)}
                           \cup {<<Frame(root, "actions", i)>> : i \in 1..(Len(Targets[root].Actions) + 1)}
              /\ \A d \in TransDeps(root) : Count(bodies, d) = 1

\* C1 witness: the diamond 1 -> {2, 3}, 2 -> {3}; the root's body has started
\* after the bodies of 3 and 2, each run once.
C1_Witness ==
    /\ fresh
    /\ Targets[1].Dependencies = <<2, 3>>
    /\ Targets[2].Dependencies = <<3>>
    /\ Targets[3].Dependencies = <<>>
    /\ root = 1
    /\ bodies = <<3, 2, 1>>
    /\ stack = <<Frame(1, "checks", 1)>>

\* ----------------------------------------------------------------- C2
\* The members of the cycles through t.
CycleOf(t) == {u \in TransDeps(t) \cap DOMAIN Targets : t \in TransDeps(u)}

\* Steps left to an activation before it returns, not counting its callees.
Work(f) ==
    LET t == Targets[f.id] IN
    CASE f.pc = "deps"    -> (Len(t.Dependencies) + 1 - f.i) + 1
                                + (Len(t.Checks) + 1) + (Len(t.Actions) + 1)
      [] f.pc = "checks"  -> (Len(t.Checks) + 1 - f.i) + 1 + (Len(t.Actions) + 1)
      [] f.pc = "actions" -> (Len(t.Actions) + 1 - f.i) + 1

RECURSIVE SumWork(_)
SumWork(stk) == IF stk = <<>> THEN 0 ELSE Work(stk[1]) + SumWork(Tail(stk))

RECURSIVE MaxOver(_)
MaxOver(S) ==
    IF S = {} THEN 0
    ELSE LET x == CHOOSE y \in S : TRUE
             m == MaxOver(S \ {x})
             w == Work(Frame(x, "deps", 1))
         IN IF w > m THEN w ELSE m

\* A variant of the recursion: the work left on the stack, plus a full
\* activation for every target that is not yet in the lineage.
Rank(stk, lin, r) ==
    IF stk = <<>> \/ r # "none" THEN 0
    ELSE SumWork(stk)
           + Cardinality(DOMAIN Targets \ lin) * (MaxOver(DOMAIN Targets) + 1)

\* C2: RunTarget called with an empty lineage on a new Duck, cycles or not:
\* no target has two activations on the stack (the recursion is never deeper
\* than the table), every step of the call decreases the variant Rank (the
\* call terminates), no body runs twice; and when the root lies on a cycle,
\* the call fails only where the context is cancelled, a body fails or an id
\* is missing, and a successful return has run the body of every target of
\* the root's cycles exactly once.
C2_CyclesTerminateOnce ==
    [][ fresh' =>
        /\ \A i, j \in 1..Len(stack') : i # j => stack'[i].id # stack'[j].id
        /\ Len(stack') <= Cardinality(DOMAIN Targets)
        /\ \A t \in DOMAIN Targets : Count(bodies', t) <= 1
        /\ (Running /\ <<stack, ret>>' # <<stack, ret>>) =>
              Rank(stack', lineage', ret') < Rank(stack, lineage, ret)
        /\ (Running /\ stack' = <<>> /\ root \in CycleOf(root)) =>
              /\ ret' = "err" =>
                    \/ observed'
                    \/ last'.ev \in {"check", "action"}
                    \/ MissingId \in TransDeps(root)
              /\ ret' = "nil" =>
                    \A u \in CycleOf(root) : Count(bodies', u) = 1
      ]_vars

\* C2 witness: the 2-cycle 1 <-> 2; RunTarget(1) has returned nil after the
\* bodies of 2 and 1, each run once.
C2_Witness ==
    /\ fresh
    /\ Targets[1].Dependencies = <<2>>
    /\ Targets[2].Dependencies = <<1>>
    /\ root = 1
    /\ bodies = <<2, 1>>
    /\ stack = <<>>
    /\ ret = "nil"

\* ----------------------------------------------------------------- C3
\* What a call that returns val at once, having done nothing, leaves.
ReturnsAtOnce(val) ==
    /\ ret' = val
    /\ stack' = <<>>
    /\ bodies' = <<>>
    /\ last' = NoItem
    /\ Targets' = Targets

\* C3: RunTarget (with any lineage) and Target.Run, called on a Cleared target
\* while the context is not cancelled, return nil at once: no dependency is
\* visited, no check or action runs, nothing changes. And at any time no
\* Cleared target has an activation, so no step visits a dependency of a
\* Cleared target or executes one of its checks or actions.
C3_ClearedShortCircuits ==
    [][ /\ (/\ Idle
            /\ ~ctxDone
            /\ root' \in DOMAIN Targets
            /\ Targets[root'].Cleared
            /\ \/ CallRun(root')
               \/ \E lin \in SUBSET DOMAIN Targets : CallRunTarget(root', lin))
           => ReturnsAtOnce("nil")
        /\ \A i \in 1..Len(stack') : ~Targets'[stack'[i].id].Cleared
        /\ (VisitDependency \/ \E out \in {"err", "true", "false"} : ExecuteCheck(out)
                            \/ \E res \in {"ok", "err"} : ExecuteAction(res))
              => ~Targets[Top(stack).id].Cleared
      ]_vars

\* C3 witness: every target is Cleared and the latest call, made with the
\* context not cancelled, returned nil without running any body.
C3_Witness ==
    /\ \A t \in DOMAIN Targets : Targets[t].Cleared
    /\ root \in DOMAIN Targets
    /\ ~fresh
    /\ ~ctxDone
    /\ stack = <<>>
    /\ ret = "nil"
    /\ bodies = <<>>

\* ----------------------------------------------------------------- C4
\* C4: no step of any sequence of RunTarget and Target.Run calls on the Duck
\* sets a Cleared flag back to false.
C4_ClearedMonotonic ==
    [][\A t \in DOMAIN Targets : Targets[t].Cleared => Targets'[t].Cleared]_vars

\* C4 witness: a later call runs a body while the target Cleared by an
\* earlier call is still Cleared.
C4_Witness ==
    /\ ~fresh
    /\ Running
    /\ bodies # <<>>
    /\ \E t \in DOMAIN Targets : Targets[t].Cleared /\ Count(bodies, t) = 0

\* ------------------------------------------------------------ C5 .. C8
\* The check the top activation is about to execute, and its target's config.
TopTarget == Targets[Top(stack).id]

TopCheck == TopTarget.Checks[Top(stack).i]

TopAction == TopTarget.Actions[Top(stack).i]

\* The policy of the specification: the item's override if set, else the
\* target's default if set, else false.
Effective(item, dflt) ==
    IF item # Nil THEN item[1] ELSE IF dflt # Nil THEN dflt[1] ELSE FALSE

\* The raw outcome out of the top check is an effective failure.
Fails(out) == out # "err" /\ ((out = "true") = TopCheck.Config.Invert)

NoExitOnCheck ==
    ~Effective(TopCheck.Config.ExitOnFailure, TopTarget.Config.ExitOnCheckFailure)

\* The top activation returns val: to the top-level caller, or to the
\* RunTarget below it, which goes on with its next dependency.
TopReturnsNil ==
    IF Len(stack) = 1
    THEN stack' = <<>> /\ ret' = "nil"
    ELSE /\ stack' = [Front(stack) EXCEPT ![Len(stack) - 1].i = @ + 1]
         /\ ret' = "none"

\* Every activation returns the error, the top-level call fails; no Cleared
\* flag is set and no body is started.
AllReturnErr ==
    /\ stack' = <<>>
    /\ ret' = "err"
    /\ Targets' = Targets
    /\ bodies' = bodies

\* C5: a check failing under target-level cancelOnCheckFailure=true, without
\* a per-item cancelOnFailure and with no exit policy in effect, makes
\* Target.Run return an error, and every RunTarget activation below it (the
\* targets that depend on it) returns the error without running its body.
C5_CheckCancelPropagates ==
    [][\A out \in {"true", "false"} :
          (/\ ExecuteCheck(out)
           /\ Fails(out)
           /\ TopTarget.Config.CancelOnCheckFailure = PtrTo(TRUE)
           /\ TopCheck.Config.CancelOnFailure = Nil
           /\ NoExitOnCheck)
          => AllReturnErr
      ]_vars

\* C5 witness: RunTarget(ChainLen) failed on the first check of target 1,
\* which the whole chain depends on; the only body started is that of 1.
C5_Witness ==
    /\ root = ChainLen
    /\ fresh
    /\ ret = "err"
    /\ ~observed
    /\ last \in {Item("check", 1, 1, "true"), Item("check", 1, 1, "false")}
    /\ Targets[1].Config.CancelOnCheckFailure = PtrTo(TRUE)
    /\ Targets[1].Checks[1].Config.CancelOnFailure = Nil
    /\ bodies = <<1>>

\* C6: with target-level cancelOnCheckFailure=true and the per-item override
\* cancelOnFailure=false (no exit policy in effect), a failing check is a
\* soft stop: the target becomes Cleared, Target.Run returns nil; Cleared
\* targets have no activation (C3), so no later check and no action of the
\* target runs.
C6_OverrideFalseSoftStops ==
    [][ /\ \A out \in {"true", "false"} :
              (/\ ExecuteCheck(out)
               /\ Fails(out)
               /\ TopTarget.Config.CancelOnCheckFailure = PtrTo(TRUE)
               /\ TopCheck.Config.CancelOnFailure = PtrTo(FALSE)
               /\ NoExitOnCheck)
              => /\ Targets' = [Targets EXCEPT ![Top(stack).id].Cleared = TRUE]
                 /\ TopReturnsNil
                 /\ bodies' = bodies
        /\ (\E out \in {"err", "true", "false"} : ExecuteCheck(out)
               \/ \E res \in {"ok", "err"} : ExecuteAction(res))
              => ~Targets[Top(stack).id].Cleared
      ]_vars

\* C6 witness: Target.Run of target 1 returned nil to the top-level caller
\* after its first check failed; the second check and the actions did not run.
C6_Witness ==
    /\ root = 1
    /\ ret = "nil"
    /\ last \in {Item("check", 1, 1, "true"), Item("check", 1, 1, "false")}
    /\ Targets[1].Config.CancelOnCheckFailure = PtrTo(TRUE)
    /\ Targets[1].Checks[1].Config.CancelOnFailure = PtrTo(FALSE)
    /\ Targets[1].Cleared
    /\ Len(Targets[1].Checks) > 1
    /\ Len(Targets[1].Actions) > 0

\* C7: the four policies Target.Run computes are Effective of the item's
\* override and the target's default, each from its own pair of settings
\* only; and the check that failed last, or the action whose Execute failed
\* last, was handled by them, exit first: the process exited, or the run
\* returned the error, or the target is Cleared and its run returned nil.
C7_PolicyResolution ==
    /\ \A t \in DOMAIN Targets :
           LET tcfg == Targets[t].Config IN
           /\ \A k \in 1..Len(Targets[t].Checks) :
                 LET c == Targets[t].Checks[k].Config IN
                 /\ CheckShouldExit(c, tcfg)
                       = Effective(c.ExitOnFailure, tcfg.ExitOnCheckFailure)
                 /\ CheckShouldCancel(c, tcfg)
                       = Effective(c.CancelOnFailure, tcfg.CancelOnCheckFailure)
           /\ \A k \in 1..Len(Targets[t].Actions) :
                 LET a == Targets[t].Actions[k].Config IN
                 /\ ActionShouldExit(a, tcfg)
                       = Effective(a.ExitOnFailure, tcfg.ExitOnActionFailure)
                 /\ ActionShouldCancel(a, tcfg)
                       = Effective(a.CancelOnFailure, tcfg.CancelOnActionFailure)
    /\ (/\ last.ev = "check"
        /\ last.out # "err"
        /\ (last.out = "true") = Targets[last.t].Checks[last.k].Config.Invert)
          => LET c == Targets[last.t].Checks[last.k].Config
                 tcfg == Targets[last.t].Config IN
             IF Effective(c.ExitOnFailure, tcfg.ExitOnCheckFailure)
                THEN ret = "exit"
             ELSE IF Effective(c.CancelOnFailure, tcfg.CancelOnCheckFailure)
                THEN ret = "err" /\ ~Targets[last.t].Cleared
             ELSE ret \in {"nil", "none"} /\ Targets[last.t].Cleared
    /\ (last.ev = "action" /\ last.out = "err")
          => LET a == Targets[last.t].Actions[last.k].Config
                 tcfg == Targets[last.t].Config IN
             IF Effective(a.ExitOnFailure, tcfg.ExitOnActionFailure)
                THEN ret = "exit"
             ELSE IF Effective(a.CancelOnFailure, tcfg.CancelOnActionFailure)
                THEN ret = "err" /\ ~Targets[last.t].Cleared
             ELSE ret \in {"nil", "none"} /\ Targets[last.t].Cleared

\* C7 witness: a failing check whose exitOnFailure=false overrides the
\* target's exitOnCheckFailure=true and whose unset cancelOnFailure leaves
\* the target's cancelOnCheckFailure=true in effect: the run was cancelled.
C7_Witness ==
    /\ ret = "err"
    /\ ~observed
    /\ last \in {Item("check", 1, 2, "true"), Item("check", 1, 2, "false")}
    /\ Targets[1].Checks[2].Config.ExitOnFailure = PtrTo(FALSE)
    /\ Targets[1].Config.ExitOnCheckFailure = PtrTo(TRUE)
    /\ Targets[1].Checks[2].Config.CancelOnFailure = Nil
    /\ Targets[1].Config.CancelOnCheckFailure = PtrTo(TRUE)

\* C8: an error returned by a check's Execute makes Target.Run and every
\* RunTarget activation below it return the error, whatever the exit and
\* cancel policies and the Invert flag are: the process does not exit, no
\* Cleared flag is set, no later check, action or body runs.
C8_CheckErrorFatal ==
    [][ExecuteCheck("err") => AllReturnErr]_vars

\* C8 witness: Execute of the first check of target 1 failed, the context
\* not being cancelled, under an exit policy; RunTarget(ChainLen) returned
\* the error and target 1 is not Cleared.
C8_Witness ==
    /\ root = ChainLen
    /\ fresh
    /\ ret = "err"
    /\ ~ctxDone
    /\ last = Item("check", 1, 1, "err")
    /\ Targets[1].Checks[1].Config.ExitOnFailure = PtrTo(TRUE)
    /\ ~Targets[1].Cleared
    /\ bodies = <<1>>

\* ----------------------------------------------------------------- C9
\* C9: a top-level run in which a component saw the cancelled context never
\* returns nil.
C9_CancelNeverSucceeds == observed => ret # "nil"

\* ---------------------------------------------------------------- C10
\* C10: a check whose Execute stored the raw outcome passes (Target.Run goes
\* on with the next item and changes nothing else) exactly when the outcome
\* differs from Invert.
C10_InvertOnce ==
    [][\A out \in {"true", "false"} :
          ExecuteCheck(out) =>
             ((/\ stack' = [stack EXCEPT ![Len(stack)].i = @ + 1]
               /\ ret' = "none"
               /\ Targets' = Targets)
              <=> ((out = "true") # TopCheck.Config.Invert))
      ]_vars

\* C10 witness: a check with Invert=true whose raw outcome was true failed
\* (here a soft stop: its target is Cleared and no action ran).
C10_Witness ==
    /\ last = Item("check", 1, 1, "true")
    /\ Targets[1].Checks[1].Config.Invert
    /\ Targets[1].Cleared
    /\ root = 1
    /\ ret = "nil"

\* ---------------------------------------------------------------- C11
\* The step executes a check or an action (recorded in last').
Executes == last' # NoItem /\ ctxDone' = ctxDone

\* Item it is a check that ran and effectively passed.
PassedCheck(it) ==
    /\ it.ev = "check"
    /\ it.out \in {"true", "false"}
    /\ (it.out = "true") # Targets[it.t].Checks[it.k].Config.Invert

\* C11: Target.Run executes the checks in declared order, then the actions in
\* declared order. Check 1 is the first item of a body; check k+1 executes
\* only as the item following check k, which passed; the loop over Actions is
\* entered only when the check executed last was the last check and passed;
\* action k+1 executes only as the item following action k, which succeeded.
\* A failing check ends the activation, so no later check of it executes.
C11_DeclaredOrder ==
    [][ /\ Executes =>
             /\ Running
             /\ Top(stack).id = last'.t
             /\ Top(stack).i = last'.k
             /\ Top(stack).pc = (IF last'.ev = "check" THEN "checks" ELSE "actions")
             /\ IF last'.k = 1
                   THEN last = NoItem
                   ELSE /\ last.ev = last'.ev
                        /\ last.t = last'.t
                        /\ last.k = last'.k - 1
                        /\ IF last.ev = "check" THEN PassedCheck(last) ELSE last.out = "ok"
        /\ (/\ Running
            /\ stack' # <<>>
            /\ Top(stack').pc = "actions"
            /\ Top(stack).pc # "actions")
           => /\ Top(stack).pc = "checks"
              /\ stack' = [stack EXCEPT ![Len(stack)] = Frame(@.id, "actions", 1)]
              /\ Top(stack).i = Len(TopTarget.Checks) + 1
              /\ TopTarget.Checks # <<>> =>
                    /\ PassedCheck(last)
                    /\ last.t = Top(stack).id
                    /\ last.k = Len(TopTarget.Checks)
        /\ (Executes /\ last'.ev = "check" /\ ~PassedCheck(last'))
              => (Len(stack') < Len(stack) \/ ret' = "exit")
      ]_vars

\* C11 witness: the second action of target 1 is about to execute after both
\* checks passed and the first action succeeded.
C11_Witness ==
    /\ Running
    /\ Top(stack) = Frame(1, "actions", 2)
    /\ last = Item("action", 1, 1, "ok")
    /\ Len(Targets[1].Checks) >= 2
    /\ Len(Targets[1].Actions) >= 2

\* ---------------------------------------------------------------- C12
NoExitOnAction ==
    ~Effective(TopAction.Config.ExitOnFailure, TopTarget.Config.ExitOnActionFailure)

NoCancelOnAction ==
    ~Effective(TopAction.Config.CancelOnFailure, TopTarget.Config.CancelOnActionFailure)

\* The soft stop of the top activation: its target becomes Cleared, it returns
\* nil to its caller, no body starts.
SoftStop ==
    /\ Targets' = [Targets EXCEPT ![Top(stack).id].Cleared = TRUE]
    /\ TopReturnsNil
    /\ bodies' = bodies

\* C12: an action whose Execute fails while its effective exit and cancel
\* policies are both false is a soft stop: the target becomes Cleared and
\* Target.Run returns nil; no item of a Cleared target executes, so the
\* remaining actions are skipped; and the RunTarget of the dependent that
\* was waiting for it then runs the dependent's body (context not cancelled).
C12_ActionSoftStop ==
    [][ /\ (ExecuteAction("err") /\ NoExitOnAction /\ NoCancelOnAction) => SoftStop
        /\ Executes => ~Targets[last'.t].Cleared
        /\ (/\ last.ev = "action"
            /\ last.out = "err"
            /\ Running
            /\ ~ctxDone
            /\ RunBody)
           => /\ Targets[last.t].Cleared
              /\ Top(stack).id # last.t
              /\ bodies' = Append(bodies, Top(stack).id)
              /\ Top(stack') = Frame(Top(stack).id, "checks", 1)
      ]_vars

\* C12 witness: the first action of target 1 failed under policies that are
\* both false; target 1 is Cleared, its second action did not run, and the
\* RunTarget of target 2, which depends on it, goes on.
C12_Witness ==
    /\ last = Item("action", 1, 1, "err")
    /\ ~ActionShouldExit(Targets[1].Actions[1].Config, Targets[1].Config)
    /\ ~ActionShouldCancel(Targets[1].Actions[1].Config, Targets[1].Config)
    /\ Len(Targets[1].Actions) >= 2
    /\ Targets[1].Cleared
    /\ ~ctxDone
    /\ Running
    /\ Top(stack) = Frame(2, "deps", 2)
    /\ bodies = <<1>>

\* ---------------------------------------------------------------- C13
\* Nothing is configured on the top target's item c.
Unconfigured(c) == c.CancelOnFailure = Nil /\ c.ExitOnFailure = Nil

\* C13: Load leaves cancelOnActionFailure true and the three other target
\* policies unset when the document sets none. On a target and item with no
\* policy configured a failing action makes Target.Run return an error and a
\* failing check is a soft stop; a target-level cancelOnActionFailure=false
\* (item unset) or an item cancelOnFailure=false makes the failing action a
\* soft stop (no exit policy in effect).
C13_ActionCancelDefaultsTrue ==
    [][ /\ LoadConfig(TargetConfig(Nil, Nil, Nil, Nil))
              = TargetConfig(Nil, PtrTo(TRUE), Nil, Nil)
        /\ \A b \in BOOLEAN :
              LoadConfig(TargetConfig(Nil, PtrTo(b), Nil, Nil))
                 = TargetConfig(Nil, PtrTo(b), Nil, Nil)
        /\ (/\ ExecuteAction("err")
            /\ TopTarget.Config = LoadConfig(TargetConfig(Nil, Nil, Nil, Nil))
            /\ Unconfigured(TopAction.Config))
           => AllReturnErr
        /\ \A out \in {"true", "false"} :
              (/\ ExecuteCheck(out)
               /\ Fails(out)
               /\ TopTarget.Config = LoadConfig(TargetConfig(Nil, Nil, Nil, Nil))
               /\ Unconfigured(TopCheck.Config))
              => SoftStop
        /\ (/\ ExecuteAction("err")
            /\ NoExitOnAction
            /\ \/ TopAction.Config.CancelOnFailure = PtrTo(FALSE)
               \/ /\ TopAction.Config.CancelOnFailure = Nil
                  /\ TopTarget.Config
                       = LoadConfig(TargetConfig(Nil, PtrTo(FALSE), Nil, Nil)))
           => SoftStop
      ]_vars

\* C13 witness: with no policy configured anywhere, the action of target 2
\* failed (context not cancelled) and RunTarget(ChainLen) returned the error.
C13_Witness ==
    /\ root = ChainLen
    /\ ret = "err"
    /\ ~ctxDone
    /\ last = Item("action", 2, 1, "err")
    /\ Targets[2].Config = TargetConfig(Nil, PtrTo(TRUE), Nil, Nil)
    /\ Unconfigured(Targets[2].Actions[1].Config)
    /\ ~Targets[2].Cleared

\* ---------------------------------------------------------------- C14
\* The process exits inside Target.Run: nothing returns, nothing changes.
ProcessExits ==
    /\ ret' = "exit"
    /\ stack' = stack
    /\ Targets' = Targets
    /\ bodies' = bodies

\* C14: a failing check or action whose effective exit policy is true ends
\* the process inside Target.Run, whatever the cancel policy is: no activation
\* returns, no Cleared flag is set, and no step follows the exit.
C14_ExitTerminates ==
    [][ /\ \A out \in {"true", "false"} :
              (ExecuteCheck(out) /\ Fails(out) /\ ~NoExitOnCheck) => ProcessExits
        /\ (ExecuteAction("err") /\ ~NoExitOnAction) => ProcessExits
        /\ ret # "exit"
      ]_vars

\* C14 witness: the process exited on the failing second action of target 1,
\* whose effective exit and cancel policies are both true, while target 2
\* was waiting for target 1.
C14_Witness ==
    /\ ret = "exit"
    /\ last = Item("action", 1, 2, "err")
    /\ ActionShouldExit(Targets[1].Actions[2].Config, Targets[1].Config)
    /\ ActionShouldCancel(Targets[1].Actions[2].Config, Targets[1].Config)
    /\ ~Targets[1].Cleared
    /\ stack = <<Frame(2, "deps", 1), Frame(1, "actions", 2)>>

\* ---------------------------------------------------------------- C15
\* The dependency the top RunTarget activation visits next.
NextDependency == TopTarget.Dependencies[Top(stack).i]

\* The step is one in which an activation fails: RunTarget or Target.Run
\* finds the context cancelled or the target missing, or an item cancels.
StepFails ==
    \/ /\ VisitDependency
       /\ RunTargetEntry(Targets, ctxDone, lineage, NextDependency)
             \in {"cancelled", "notfound"}
    \/ RunBody /\ TargetRunEntry(TopTarget, ctxDone) = "cancelled"
    \/ \E out \in {"err", "true", "false"} :
          ExecuteCheck(out) /\ CheckOutcome(TopCheck, TopTarget.Config, out) \in {"err", "cancel"}
    \/ ExecuteAction("err") /\ ActionOutcome(TopAction, TopTarget.Config, "err") = "cancel"

\* C15: RunTarget visits the dependencies in declared order: an activation is
\* started only for the dependency at the loop index of the activation below
\* it, and a loop index only moves to the next dependency, when the visit of
\* the current one returned nil. A failure in any activation is returned by
\* every activation below it in the same step: no further dependency is
\* visited and no body starts. A body starts only after the last dependency.
C15_DepsInOrderErrStops ==
    [][ /\ (Running /\ Len(stack') = Len(stack) + 1 /\ Top(stack').pc = "deps")
           => /\ Top(stack).pc = "deps"
              /\ Top(stack).i \in 1..Len(TopTarget.Dependencies)
              /\ Top(stack').id = NextDependency
              /\ Top(stack').i = 1
              /\ Front(stack') = stack
        /\ \A j \in 1..Len(stack) :
              (j <= Len(stack') /\ stack[j].pc = "deps" /\ stack'[j] # stack[j])
              => /\ j = Len(stack')
                 /\ ret' = "none"
                 /\ \/ stack'[j] = [stack[j] EXCEPT !.i = @ + 1]
                    \/ /\ j = Len(stack)
                       /\ stack[j].i = Len(Targets[stack[j].id].Dependencies) + 1
                       /\ stack'[j] = Frame(stack[j].id, "checks", 1)
        /\ StepFails => AllReturnErr
        /\ ret' = "err" => (stack' = <<>> /\ bodies' = bodies /\ Targets' = Targets)
        /\ bodies' # bodies =>
              /\ Running
              /\ Top(stack).pc = "deps"
              /\ Top(stack).i = Len(TopTarget.Dependencies) + 1
              /\ bodies' = Append(bodies, Top(stack).id)
      ]_vars

\* C15 witness: target 1 depends on 2 and 3, in this order; the action of 2
\* failed and cancelled the run: 3 was not visited and the body of 1 did not
\* start.
C15_Witness ==
    /\ root = 1
    /\ Targets[1].Dependencies = <<2, 3>>
    /\ Targets[2].Dependencies = <<>>
    /\ ret = "err"
    /\ ~ctxDone
    /\ last = Item("action", 2, 1, "err")
    /\ bodies = <<2>>
    /\ \A t \in DOMAIN Targets : ~Targets[t].Cleared

\* ---------------------------------------------------------------- C16
\* C16: RunTarget fails on an id that is not in the table: the existence
\* test gives "not found" for every lineage, the one holding the id
\* included (a missing id has no Cleared flag to test); Duck.Run on a
\* missing target returns the error having run nothing; a missing dependency
\* makes every activation return the error, so that the body of the target
\* that lists it, and of every target waiting for that one, does not start.
C16_MissingTargetFails ==
    [][ /\ \A lin \in SUBSET (DOMAIN Targets \cup {MissingId}) :
              RunTargetEntry(Targets, FALSE, lin, MissingId) = "notfound"
        /\ DuckRun(MissingId) => (ret' = "err" /\ stack' = <<>> /\ bodies' = <<>>)
        /\ (VisitDependency /\ NextDependency \notin DOMAIN Targets) => AllReturnErr
        /\ \A t \in DOMAIN Targets : MissingId \in DepSet(t) => Count(bodies', t) = 0
      ]_vars

\* C16 witness: target 1 lists the missing id and then target 2; Duck.Run on
\* 1 returned the error (context not cancelled) and no body ran.
C16_Witness ==
    /\ root = 1
    /\ fresh
    /\ Targets[1].Dependencies = <<MissingId, 2>>
    /\ ret = "err"
    /\ ~ctxDone
    /\ bodies = <<>>
    /\ last = NoItem

\* ---------------------------------------------------------- C17 .. C20
\* The documents fetched so far.
FetchedDocs == {fetched[i].doc : i \in 1..Len(fetched)}

\* The documents the locators loaded so far expand to.
DirectDocs ==
    UNION {{GetDuckfiles(docs, Files[i])[j] : j \in 1..Len(GetDuckfiles(docs, Files[i]))} :
              i \in 1..Len(Files)}

\* The documents listed under _meta.dependencies of document d.
DepDocs(d) ==
    UNION {{GetDuckfiles(docs, docs.deps[d][i])[j] :
               j \in 1..Len(GetDuckfiles(docs, docs.deps[d][i]))} :
              i \in 1..Len(docs.deps[d])}

\* C17: in one CompileTargets no document is fetched twice, however often it
\* is reached; the fetched documents are those recorded in Duck.Duckfiles;
\* loading a recorded document again, with either recurse flag, is a no-op
\* that succeeds; while no error occurred each target of a fetched document
\* is in the table with the definition of that document.
C17_LoadedOnce ==
    /\ \A i, j \in 1..Len(fetched) : fetched[i].doc = fetched[j].doc => i = j
    /\ FetchedDocs = Duckfiles
    /\ \A d \in Duckfiles, r \in BOOLEAN : LoadDuckfile(docs, Cur, d, r) = Cur
    /\ ret = "none" =>
          \A d \in Duckfiles : \A id \in DocTargets(docs, d) :
              id \in DOMAIN Targets /\ Targets[id] = DocTarget(d, id)

\* C17 witness: document 1 is listed as a dependency of document 2 and also
\* supplied directly after it; it was fetched once and the run compiled.
C17_Witness ==
    /\ Files = <<2, 1>>
    /\ docs.deps[2] = <<1>>
    /\ next = 3
    /\ ret = "none"
    /\ fetched = <<Fetch(2, TRUE), Fetch(1, FALSE)>>
    /\ DOMAIN Targets = {1, 2}

\* C18: when two distinct fetched documents declare the same target id, the
\* resolution has failed: Duck.Run returned the error and RunTarget was not
\* called, so nothing executed. appendTarget on an id of the table returns an
\* error and leaves the table as it is, and no step changes or removes a
\* definition of the table.
C18_DuplicateIdFails ==
    [][ /\ (\E i, j \in 1..Len(fetched') :
               /\ i # j
               /\ DocTargets(docs, fetched'[i].doc) \cap DocTargets(docs, fetched'[j].doc) # {})
           => /\ ret' = "err"
              /\ stack' = <<>>
              /\ bodies' = <<>>
              /\ root' = MissingId
              /\ next' <= Len(Files)
        /\ \A id \in DOMAIN Targets :
              /\ id \in DOMAIN Targets'
              /\ Targets'[id] = Targets[id]
              /\ \A d \in Docs :
                    /\ appendTarget(docs, Cur, id, d).err
                    /\ appendTarget(docs, Cur, id, d).Targets = Targets
      ]_vars

\* C18 witness: documents 1 and NumDocs both declare target 1; they were
\* supplied in this order, the run failed, and the table still holds the
\* definition of document 1.
C18_Witness ==
    /\ Files = <<1, NumDocs>>
    /\ docs.dup = 1
    /\ ret = "err"
    /\ ~ctxDone
    /\ fetched = <<Fetch(1, TRUE), Fetch(NumDocs, TRUE)>>
    /\ Targets[1] = DocTarget(1, 1)
    /\ stack = <<>>

\* C19: a document is loaded with recurse only when a supplied locator
\* expands to it, and without recurse only as a dependency of a document
\* loaded with recurse before it. Loading a document without recurse fetches
\* that document alone and, unless an id is a duplicate, merges its targets.
\* The key _meta is never a target.
C19_OneLevelDeep ==
    /\ MetaKey \notin DOMAIN Targets
    /\ \A i \in 1..Len(fetched) :
          IF fetched[i].recurse
          THEN fetched[i].doc \in DirectDocs
          ELSE \E j \in 1..(i - 1) :
                  fetched[j].recurse /\ fetched[i].doc \in DepDocs(fetched[j].doc)
    /\ \A d \in Docs \ Duckfiles :
          LET R == LoadDuckfile(docs, Cur, d, FALSE) IN
          /\ R.fetched = Append(fetched, Fetch(d, FALSE))
          /\ R.Duckfiles = Duckfiles \cup {d}
          /\ ~R.err => DOMAIN R.Targets = DOMAIN Targets \cup DocTargets(docs, d)

\* C19 witness: document 1 is supplied and lists 2, which lists 3: after the
\* compilation 1 and 2 are merged and 3 was not loaded.
C19_Witness ==
    /\ Files = <<1>>
    /\ docs.deps[1] = <<2>>
    /\ docs.deps[2] = <<3>>
    /\ next = 2
    /\ ret = "none"
    /\ fetched = <<Fetch(1, TRUE), Fetch(2, FALSE)>>
    /\ DOMAIN Targets = {1, 2}
    /\ 3 \notin Duckfiles

\* The locators of Config.Files in the other order.
RECURSIVE Reverse(_)
Reverse(seq) == IF seq = <<>> THEN <<>> ELSE Append(Reverse(Tail(seq)), Head(seq))

\* C20: the table a successful CompileTargets built is the table every
\* successful CompileTargets builds from the same locators supplied in another
\* order, with the directory listed in any order.
C20_OrderIndependent ==
    (Files # <<>> /\ next = Len(Files) + 1) =>
       \A files \in {Files, Reverse(Files)}, lst \in Listings :
          LET R == CompileFiles([docs EXCEPT !.listing = lst],
                                Resolver({}, <<>>, <<>>, FALSE), files) IN
          ~R.err => R.Targets = Targets

\* ------------------------------------------------ resolution errors
\* The documents CompileTargets expands the dependencies of: those fetched
\* with recurse = true.
RecursedDocs == {fetched[i].doc : i \in {j \in 1..Len(fetched) : fetched[j].recurse}}

\* Resolution has gone wrong somewhere, told from the store and from what
\* has been fetched: a fetched document does not load, a fetched document
\* declares a target that cannot be built, two fetched documents declare one
\* id, or a locator that does not expand was passed in Config.Files or was
\* met under _meta.dependencies.
ResolutionError ==
    \/ /\ docs.fault.kind = "fetch"
       /\ docs.fault.at \in FetchedDocs
    \/ /\ docs.fault.kind \in {"check", "action"}
       /\ \E d \in FetchedDocs : docs.fault.at \in DocTargets(docs, d)
    \/ \E d, e \in FetchedDocs : d # e /\ DocTargets(docs, d) \cap DocTargets(docs, e) # {}
    \/ /\ docs.fault.kind = "expand"
       /\ \/ \E i \in 1..Len(Files) : i < next /\ Files[i] = docs.fault.at
          \/ \E d \in RecursedDocs :
                \E i \in 1..Len(docs.deps[d]) : docs.deps[d][i] = docs.fault.at

\* Duck.Run returned the error of CompileTargets.
ResolutionFailed == ret = "err" /\ Files # <<>> /\ next <= Len(Files)

\* RunTarget has not been called and no target, check or action has run.
NothingExecuted ==
    /\ stack = <<>>
    /\ root = MissingId
    /\ bodies = <<>>
    /\ last = NoItem
    /\ \A t \in DOMAIN Targets : ~Targets[t].Cleared

\* C21: an error during resolution (a locator that does not expand, a document
\* that cannot be fetched or parsed, a duplicate id, a target that cannot be
\* built) makes Duck.Run return the error before RunTarget is called: nothing
\* executes, although the table may hold the targets merged before the error.
C21_ResolutionErrorAborts ==
    (ResolutionError \/ ResolutionFailed) => (ResolutionFailed /\ NothingExecuted)

C21_Witness ==
    /\ ResolutionFailed
    /\ docs.fault.kind = "fetch"
    /\ docs.fault.at \in FetchedDocs
    /\ Targets # <<>>
    /\ ~ctxDone

\* C22: a target with a check or an action descriptor of an unknown type is
\* never built; once the document that declares it is fetched, resolution has
\* failed and nothing runs, whichever target the run was to start from.
C22_UnknownSelectorFails ==
    \A id \in Docs :
        (CheckType(docs, id) \notin CheckTypes \/ ActionType(docs, id) \notin ActionTypes)
        => /\ id \notin DOMAIN Targets
           /\ (\E d \in FetchedDocs : id \in DocTargets(docs, d))
              => (ResolutionFailed /\ NothingExecuted)

C22_Witness ==
    /\ docs.fault = [kind |-> "action", at |-> 2]
    /\ 2 \in FetchedDocs
    /\ 1 \in DOMAIN Targets
    /\ ResolutionFailed
    /\ ~ctxDone

\* ---------------------------------------------------------- daemon loop
\* C23: without daemon mode DefaultApp goes through one Running phase and then
\* returns, whatever the interval, the timeout and the iteration limit are: it
\* never sleeps or counts an interval, never arms the deadline, never starts a
\* second Running phase, and has had its one Running phase when it returns
\* (unless the context was done before the loop started).
C23_OneRunWithoutDaemon ==
    ~konfig.daemon =>
        /\ runs <= 1
        /\ phase # "sleeping"
        /\ iterationCount = 0
        /\ arms = 0
        /\ phase = "terminated" => (runs = 1 \/ (runs = 0 /\ ctxDone))
        /\ runs = 1 => phase # "top"

C23_Witness ==
    /\ ~konfig.daemon
    /\ konfig.interval > 0
    /\ konfig.timeout > 0
    /\ konfig.iterations = MaxIterations
    /\ phase = "terminated"
    /\ appret = "nil"
    /\ runs = 1
    /\ bodies # <<>>
    /\ ~ctxDone

\* DefaultApp returned nil.
Succeeded == phase = "terminated" /\ appret = "nil"

\* The deadline timer has fired.
DeadlinePassed == timeoutCh # Nil /\ now >= timeoutCh[1]

\* C24: in daemon mode with iteration limit N > 0 and no timeout, as long as
\* the context is not cancelled and no run fails, the loop goes through N
\* Running phases, counts N intervals and returns, whatever the interval is;
\* with limit 0 DefaultApp never returns nil unless the context is cancelled
\* or the deadline has passed.
C24_IterationLimit ==
    (konfig.daemon /\ ~ctxDone) =>
        /\ (konfig.iterations > 0 /\ konfig.timeout = 0) =>
              /\ runs <= konfig.iterations
              /\ iterationCount <= konfig.iterations
              /\ Succeeded <=> (phase # "top" /\ iterationCount = konfig.iterations)
              /\ Succeeded => runs = konfig.iterations
        /\ (konfig.iterations = 0 /\ ~DeadlinePassed) => ~Succeeded

C24_Witness ==
    /\ konfig = Konfig(TRUE, 2, 0, 3)
    /\ ~ctxDone
    /\ Succeeded
    /\ runs = 3
    /\ slept = 6

\* C25: the deadline timer is armed at most once, on the first entry to the
\* inner select (no interval counted yet) after a successful run, for the
\* moment of arming plus the timeout; it is there from the first sleep on, is
\* never replaced afterwards, and is never armed when the timeout is 0 or
\* daemon mode is off.
C25_DeadlineArmedOnce ==
    [][ /\ arms' <= 1
        /\ (arms' = 1) <=> (timeoutCh' # Nil)
        /\ (konfig.timeout = 0 \/ ~konfig.daemon) => arms' = 0
        /\ (konfig.timeout > 0 /\ phase' = "sleeping") => arms' = 1
        /\ timeoutCh # Nil => timeoutCh' = timeoutCh
        /\ arms' # arms =>
              /\ phase = "running" /\ ret = "nil" /\ phase' = "sleeping"
              /\ iterationCount = 0
              /\ timeoutCh' = <<now + konfig.timeout>>
      ]_vars

C25_Witness ==
    /\ konfig.daemon
    /\ konfig.timeout = MaxTimeout
    /\ phase = "sleeping"
    /\ iterationCount = 2
    /\ arms = 1
    /\ now > 0
    /\ timeoutCh = <<MaxTimeout>>

C27_FreshDuckEachRun ==
    [][ /\ (phase = "top" /\ phase' = "running") =>
              (Duckfiles' = {} /\ Targets' = <<>>)
        /\ (phase' = "running" /\ stack' = <<>> /\ ret' = "nil" /\ ~ctxDone') =>
              /\ bodies' = <<NumDocs, ConfigTarget>>
              /\ fetched' = <<Fetch(NumDocs, TRUE)>>
      ]_vars

C27_Witness ==
    /\ runs = 3
    /\ phase = "running"
    /\ stack = <<>>
    /\ ret = "nil"
    /\ ~ctxDone
    /\ bodies = <<NumDocs, ConfigTarget>>
    /\ \A t \in DOMAIN Targets : Targets[t].Cleared

\* C28: an error of NewDuck or of Duck.Run, in any Running phase and with or
\* without daemon mode, is returned by DefaultApp at once: the step that leaves
\* the failed call ends the loop with the error, no Sleeping phase is entered
\* and no Running phase is started after a failed run, and nothing follows the
\* return.
C28_ErrorEndsLoop ==
    [][ /\ (phase = "running" /\ stack = <<>> /\ ret = "err" /\ phase' # phase) =>
              (phase' = "terminated" /\ appret' = "err")
        /\ (phase = "top" /\ ~ctxDone /\ Files = <<>> /\ phase' # phase) =>
              (phase' = "terminated" /\ appret' = "err" /\ Targets' = Targets)
        /\ (phase' \in {"sleeping", "top"} /\ runs' > 0) => ret' = "nil"
        /\ appret' = "err" => phase' = "terminated"
        /\ phase = "terminated" => (phase' = "terminated" /\ runs' = runs /\ slept' = slept)
      ]_vars

C28_Witness ==
    /\ konfig.daemon
    /\ runs = 2
    /\ ret = "err"
    /\ last.ev = "check"
    /\ phase = "terminated"
    /\ appret = "err"
    /\ ~ctxDone

\* C29: the context found done at the head of the loop, and the context done
\* or the deadline passed in a Sleeping phase, end the loop directly:
\* DefaultApp returns nil without counting an interval and without another
\* Running phase (in a Sleeping phase whose interval timer has fired as well,
\* the select may take the interval instead); no time passes in a Sleeping
\* phase once either is the case, and no Running phase starts once the
\* context is done.
C29_CancelOrDeadlineTerminates ==
    [][ /\ (phase = "top" /\ ctxDone /\ phase' # phase) =>
              (Succeeded' /\ iterationCount' = iterationCount /\ runs' = runs)
        /\ (phase = "sleeping" /\ (ctxDone \/ DeadlinePassed)) =>
              /\ now' = now
              /\ phase' # phase =>
                    \/ Succeeded' /\ iterationCount' = iterationCount /\ runs' = runs
                    \/ now >= wake /\ iterationCount' = iterationCount + 1
        /\ (ctxDone /\ phase \in {"top", "sleeping"}) => runs' = runs
      ]_vars

C29_Witness ==
    /\ konfig.daemon
    /\ konfig.iterations = 0
    /\ konfig.interval = 2
    /\ ~ctxDone
    /\ DeadlinePassed
    /\ Succeeded
    /\ iterationCount = 1
    /\ runs = 2
    /\ slept = konfig.timeout

\* ------------------------------------------------------------ sequencing
\* The activations that are inside Target.Run, past Lock (lines 64-65): each
\* holds the mutex of its target until it returns.
Holders == {i \in 1..Len(stack) : stack[i].pc \in {"checks", "actions"}}

\* C30: execution is sequential, for every dependency graph, cyclic ones
\* included: only the innermost activation is inside Target.Run, so at most
\* one body is in progress and at most one mutex is held; no target has two
\* activations, so the mutex of a target is never requested while it is held;
\* and a call in progress can always take its next step.
C30_Sequential ==
    /\ Holders \subseteq {Len(stack)}
    /\ \A i, j \in 1..Len(stack) : stack[i].id = stack[j].id => i = j
    /\ \A i \in Holders : Count(bodies, stack[i].id) = 1
    /\ Running => ENABLED Step

C30_Witness ==
    /\ ~Acyclic
    /\ Len(stack) = NumTargets
    /\ Holders = {NumTargets}
    /\ Top(stack).pc = "actions"
    /\ Len(bodies) = 1

\* ---------------------------------------------------- Cleared and results
\* The step returns from Target.Run on the target of the innermost
\* activation: from its body, or at its entry when RunTarget has visited
\* every dependency.
RunReturns ==
    /\ Running
    /\ Len(stack') < Len(stack)
    /\ Top(stack).pc = "deps" => Top(stack).i > Len(Targets[Top(stack).id].Dependencies)

\* What holds of target id when Target.Run on it has returned: Cleared is true
\* exactly when nil was returned, an error return leaves Cleared as it was,
\* and no other target is touched.
ClearedTellsResult(id) ==
    /\ Targets'[id].Cleared <=> ret' # "err"
    /\ ret' = "err" => Targets'[id].Cleared = Targets[id].Cleared
    /\ \A t \in DOMAIN Targets \ {id} : Targets'[t] = Targets[t]

\* C31: when Target.Run returns (the process not having exited), the target is
\* Cleared exactly when the call returned nil: after all actions, after a soft
\* stop on a check or on an action, and when it was Cleared already; a check
\* error, a cancel policy and a cancelled context at entry return an error and
\* leave Cleared as it was.
C31_ClearedIffSuccess ==
    [][ /\ RunReturns => ClearedTellsResult(Top(stack).id)
        /\ (Idle /\ stack' = <<>> /\ root' \in DOMAIN Targets /\ CallRun(root')) =>
              ClearedTellsResult(root')
      ]_vars

C31_Witness ==
    /\ last.ev = "action"
    /\ last.out = "err"
    /\ last.k = 2
    /\ ret = "err"
    /\ stack = <<>>
    /\ ~ctxDone
    /\ ~Targets[last.t].Cleared
    /\ \E t \in DOMAIN Targets : Targets[t].Cleared

\* ------------------------------------------------------------ back edges
\* The targets that have an activation.
Active == {stack[i].id : i \in 1..Len(stack)}

\* C32: the edge that closes a cycle is skipped and reported as success:
\* visiting a dependency that is in the lineage returns nil at once and the
\* loop over the dependencies goes on; so a body may run while a declared
\* dependency has neither run nor been Cleared, and every such dependency is
\* a target whose own RunTarget call is still in progress. In the 2-cycle
\* RunTarget(A) runs B's body before A's.
C32_BackEdgeSkipped ==
    [][ fresh' =>
        /\ (Running /\ ~ctxDone /\ Top(stack).pc = "deps"
              /\ Top(stack).i <= Len(TopTarget.Dependencies)
              /\ NextDependency \in lineage /\ NextDependency \in DOMAIN Targets
              /\ stack' # stack) =>
              /\ stack' = [stack EXCEPT ![Len(stack)].i = @ + 1]
              /\ ret' = "none"
              /\ Targets' = Targets
              /\ bodies' = bodies
        /\ \A i \in Holders' :
              \A d \in DepSet(stack'[i].id) :
                  (d \in DOMAIN Targets /\ ~Targets'[d].Cleared /\ Count(bodies', d) = 0)
                      => d \in Active'
        /\ (stack' = <<>> /\ ret' = "nil" /\ root' = 1 /\ DepSet(1) = {2} /\ DepSet(2) = {1}) =>
              bodies' = <<2, 1>>
      ]_vars

C32_Witness ==
    /\ fresh
    /\ Targets[1].Dependencies = <<2>>
    /\ Targets[2].Dependencies = <<1>>
    /\ root = 1
    /\ bodies = <<2>>
    /\ stack = <<Frame(1, "deps", 1), Frame(2, "actions", 1)>>
    /\ ~Targets[1].Cleared
    /\ ~ctxDone

\* ------------------------------------------------- soft-stopped dependency
\* The item executed by the latest step failed (a check whose result is
\* false after inversion, an action whose Execute returned an error) under
\* effective cancel and exit policies that are both false.
SoftStopped ==
    /\ last.ev \in {"check", "action"}
    /\ LET t == Targets[last.t] IN
       IF last.ev = "check"
       THEN LET c == t.Checks[last.k].Config IN
            /\ last.out # "err"
            /\ (last.out = "true") = c.Invert
            /\ ~Effective(c.ExitOnFailure, t.Config.ExitOnCheckFailure)
            /\ ~Effective(c.CancelOnFailure, t.Config.CancelOnCheckFailure)
       ELSE LET a == t.Actions[last.k].Config IN
            /\ last.out = "err"
            /\ ~Effective(a.ExitOnFailure, t.Config.ExitOnActionFailure)
            /\ ~Effective(a.CancelOnFailure, t.Config.CancelOnActionFailure)

\* C33: a target that ends in a soft stop counts as run: it is Cleared and its
\* RunTarget has returned nil, whatever number of its actions ran; the
\* RunTarget that visited it as a dependency is past that dependency, its
\* target not Cleared, and once its dependencies are done (the context not
\* cancelled) its next step starts its own body.
C33_SoftStopSatisfies ==
    SoftStopped =>
        /\ Targets[last.t].Cleared
        /\ ret \in {"none", "nil"}
        /\ \A i \in 1..Len(stack) : stack[i].id # last.t
        /\ stack = <<>> => ret = "nil"
        /\ stack # <<>> =>
              /\ Top(stack).pc = "deps"
              /\ Top(stack).i > 1
              /\ TopTarget.Dependencies[Top(stack).i - 1] = last.t
              /\ ~TopTarget.Cleared
              /\ (~ctxDone /\ Top(stack).i > Len(TopTarget.Dependencies)) =>
                    ENABLED (RunBody /\ Top(stack') = Frame(Top(stack).id, "checks", 1))

C33_Witness ==
    /\ SoftStopped
    /\ last = Item("check", 1, 1, "false")
    /\ Len(Targets[1].Actions) >= 2
    /\ Targets[1].Cleared
    /\ ~ctxDone
    /\ root = ChainLen
    /\ Len(stack) = ChainLen - 1
    /\ bodies = <<1>>

\* ------------------------------------------------- order of the locators
\* The documents the locators CompileTargets is past expand to.
SuppliedDocs ==
    UNION {{GetDuckfiles(docs, Files[i])[j] : j \in 1..Len(GetDuckfiles(docs, Files[i]))} :
              i \in 1..(next - 1)}

\* The documents listed as dependencies by the documents loaded with recurse.
ExpandedDocs == UNION {DepDocs(r) : r \in RecursedDocs}

\* C34: a supplied document that had been loaded before as a dependency of
\* another document is not loaded again, so its own _meta.dependencies are not
\* expanded: while no error occurred, every supplied document is loaded; the
\* dependencies of one loaded with recurse are loaded; and a dependency of one
\* loaded without recurse is loaded only if it is supplied itself or listed by
\* a document loaded with recurse. The result depends on the order of the
\* locators.
C34_DependencyFirstNotExpanded ==
    (Files # <<>> /\ ret = "none") =>
        \A d \in SuppliedDocs :
            /\ d \in Duckfiles
            /\ d \in RecursedDocs => DepDocs(d) \subseteq Duckfiles
            /\ d \notin RecursedDocs =>
                  /\ d \in ExpandedDocs
                  /\ \A e \in DepDocs(d) \cap Duckfiles : e \in SuppliedDocs \cup ExpandedDocs

C34_Witness ==
    /\ Files = <<2, 1>>
    /\ docs.deps = (1 :> <<3>>) @@ (2 :> <<1>>) @@ [d \in Docs |-> <<>>]
    /\ next = 3
    /\ ret = "none"
    /\ 1 \in SuppliedDocs \ RecursedDocs
    /\ 3 \notin Duckfiles
    /\ 3 \in CompileFiles(docs, Resolver({}, <<>>, <<>>, FALSE), <<1, 2>>).Duckfiles

\* ------------------------------------------------ deadline and the run
\* C35: the deadline is looked at in the Sleeping phase only. Time passing
\* leaves the Duck, its run and the context as they are, whether the deadline
\* passes or not; a Running phase is left for Terminated only by an error of
\* the run or without daemon mode; a run that returns nil after the deadline
\* enters the Sleeping phase, which DefaultApp leaves by returning nil (by
\* the interval only if that timer has fired as well).
C35_DeadlineOnlyInSleep ==
    [][ /\ now' # now => UNCHANGED <<rvars, ctxDone, phase, appret>>
        /\ (phase = "running" /\ phase' = "terminated") =>
              \/ ret = "err" /\ appret' = "err"
              \/ ~konfig.daemon /\ ret = "nil" /\ appret' = "nil"
        /\ (phase = "running" /\ DeadlinePassed /\ ret = "nil" /\ phase' # phase) =>
              phase' = "sleeping"
        /\ (phase = "sleeping" /\ DeadlinePassed /\ now < wake /\ phase' # phase) =>
              Succeeded'
      ]_vars

C35_Witness ==
    /\ konfig.daemon
    /\ konfig.interval > 0
    /\ phase = "sleeping"
    /\ DeadlinePassed
    /\ now > timeoutCh[1]
    /\ ret = "nil"
    /\ bodies = <<NumDocs, ConfigTarget>>
    /\ runs = 2
    /\ ~ctxDone

\* ------------------------------------------------ counting the intervals
\* C36: the iteration counter goes up by one, and the limit is tested, only
\* when the interval timer of a sleep after a successful run has fired: the
\* counter changes in no other step, every counted interval was slept in
\* full, a sleep is the one after run number iterationCount + 1, the loop
\* ends on the limit N only in the step that counts the N-th interval after
\* the N-th run, and a sleep ended by the cancellation or the deadline leaves
\* the counter as it is.
C36_CountedAfterFullInterval ==
    [][ /\ iterationCount' # iterationCount =>
              /\ phase = "sleeping" /\ ret = "nil" /\ stack = <<>>
              /\ now >= wake
              /\ iterationCount' = iterationCount + 1
              /\ runs = iterationCount'
              /\ slept >= iterationCount' * konfig.interval
              /\ phase' = (IF konfig.iterations > 0 /\ iterationCount' >= konfig.iterations
                           THEN "terminated" ELSE "top")
        /\ (phase = "running" /\ ret = "nil" /\ konfig.daemon /\ phase' # phase) =>
              /\ phase' = "sleeping"
              /\ wake' = now + konfig.interval
        /\ (phase = "sleeping" /\ phase' = "terminated" /\ iterationCount' = iterationCount) =>
              /\ ctxDone \/ DeadlinePassed
              /\ Succeeded'
        /\ (phase = "sleeping" /\ now < wake) => iterationCount' = iterationCount
      ]_vars

C36_Witness ==
    /\ konfig = Konfig(TRUE, 2, 0, 2)
    /\ Succeeded
    /\ ctxDone
    /\ runs = 2
    /\ iterationCount = 1
    /\ slept = 3

\* ---------------------------------------------------------- list-targets
\* Some id a Config.Target may name is not in the table.
TargetMissing == \E target \in Docs : target \notin DOMAIN Targets

\* C37: with the list-targets flag set, Duck.Run resolves the documents and
\* prints the ids of the table, and RunTarget is never called: no target, check
\* or action runs and no Cleared flag is set; the run returns nil whatever
\* Config.Target names, and an error only if the resolution failed or the
\* cancelled context was seen. Without the flag nothing is printed.
C37_ListTargetsRunsNothing ==
    /\ konfig.ListTargets =>
          /\ NothingExecuted
          /\ lineage = {}
          /\ ret \in {"none", "nil", "err"}
          /\ ret = "nil" =>
                /\ next = Len(Files) + 1
                /\ listed = DOMAIN Targets
                /\ ~ResolutionError
          /\ ret = "err" => (ResolutionFailed \/ observed)
          /\ ret = "none" => listed = {}
          /\ (ret = "none" /\ next = Len(Files) + 1) =>
                /\ ENABLED ListTargets
                /\ \A target \in Docs : ~ENABLED RunCompiled(target)
    /\ ~konfig.ListTargets => listed = {}

C37_Witness ==
    /\ konfig.ListTargets
    /\ ret = "nil"
    /\ ~ctxDone
    /\ listed = {2, 3}
    /\ ConfigTarget \notin DOMAIN Targets
    /\ TargetMissing


====
